---- MODULE Spec2Model ----
(***************************************************************************)
(* Model of weekly_report.py: the delivery chunker                         *)
(* (_split_report_for_delivery, _split_report_chunks), the delivery        *)
(* engine (_send_message_with_retry, send_report), the report lock and     *)
(* the sheet cache (generate_report_threadsafe, get_sheet), the /otchet    *)
(* handler and the scheduled job (report, scheduled_report), and the row   *)
(* loop of generate_report with its week windows and its link handling.    *)
(* Each part has its own specification over the one list of variables;     *)
(* the variables of the other parts stay idle.  SpecInvocation runs a      *)
(* caller together with the delivery engine it awaits; SpecSheet runs      *)
(* get_sheet in several threads without the report lock.                   *)
(*                                                                         *)
(* A string is a sequence of one-character strings.  The bullet U+2022 of  *)
(* the placeholder item is written "*" and its em dash U+2014 is written   *)
(* "-" (one character each, as in the source).  The Russian literals of    *)
(* the source (statuses, section titles, reply texts) are written in       *)
(* English; a month name is one token of a text.                           *)
(***************************************************************************)
EXTENDS Integers, Sequences, FiniteSets, TLC

VARIABLES
    \* ---- the chunker, as a pure function of (report_text, limit)
    report_text,    \* argument `text` of the splitter
    limit,          \* argument `limit` of the splitter
    split_chunks,   \* the list the function returned
    phase,          \* "input" before the call, "split" after
                    \* _split_report_for_delivery, "chunks" after _split_report_chunks
    \* ---- one send_report invocation
    pc,             \* position of the send_report coroutine
    generated,      \* how the awaited generate_report_threadsafe ended
    intro,          \* TRUE iff f"{INTRO_MENTIONS} {INTRO_TEXT}".strip() is non-empty
    chunks,         \* send_report's local list of chunks
    idx,            \* enumerate(chunks, start=1) index of the chunk loop
    msg,            \* the keyword arguments _send_message_with_retry was called with
    attempt,        \* loop variable of _send_message_with_retry
    sent_chunks,    \* send_report's counter
    failed_chunks,  \* send_report's counter
    inflight,       \* bot.send_message calls awaited and not yet completed
    events,         \* what the transport saw: starts and completions, in order
    sends,          \* completed _send_message_with_retry calls and how each ended
    slept,          \* the delays passed to asyncio.sleep, in order
    result,         \* how send_report ended: "none" while running
    \* ---- worker threads running generate_report_threadsafe
    _SHEET,         \* the module's cached worksheet handle, None when empty
    _SHEET_LOCK,    \* the thread holding the lock, Free when nobody does
    _REPORT_LOCK,   \* the thread holding the lock, Free when nobody does
    tpc,            \* position of each thread
    sheet,          \* generate_report's local `sheet` of each thread
    at_entry,       \* _SHEET as each thread found it on entering generate_report
    tried_open,     \* whether the thread's get_sheet went on to open a connection
    opened,         \* connections opened so far; a fresh handle is numbered by it
    calls,          \* generate_report_threadsafe calls made so far
    gen_log,        \* the generate_report executions that ended, in order
    \* ---- one run of the /otchet handler or of the scheduled job
    ALLOWED_CHAT_IDS,   \* module constant: the set parsed from the environment
    ALLOWED_TG_USERS,   \* module constant: the set parsed from the environment
    REPORT_CHAT_ID,     \* module constant: os.getenv("REPORT_CHAT_ID")
    update,             \* the update handed to the /otchet handler
    hpc,                \* position of the handler coroutine
    access,             \* what the handler's access check decided
    send_report_calls,  \* the chat_id argument of each send_report invocation
    replies,            \* the texts passed to update.message.reply_text
    log_calls,          \* the levels of the logger calls made
    hresult,            \* how the handler ended: "none" while running
    \* ---- one run of generate_report over the rows it read
    today,              \* datetime.now(REPORT_TIMEZONE).date()
    done_start,         \* first day of the done window
    done_end,           \* last day of the done window
    in_progress_start,  \* first day of the in-progress window
    in_progress_end,    \* last day of the in-progress window
    rows_done,          \* rows of `records` the loop has been through
    row,                \* the row of the last pass of the loop
    done_tasks,         \* generate_report's list of Done lines
    in_progress_tasks,  \* generate_report's list of In-Progress lines
    warning_calls,      \* logger.warning calls made so far
    rpc,                \* "start" before the windows are taken, "loop" while the
                        \* rows are gone through, then "returned" or "raised"
    report_out          \* the text generate_report returned

splitVars == <<report_text, limit, split_chunks, phase>>
sendVars == <<pc, generated, intro, chunks, idx, msg, attempt, sent_chunks, failed_chunks,
              inflight, events, sends, slept, result>>
genVars == <<_SHEET, _SHEET_LOCK, _REPORT_LOCK, tpc, sheet, at_entry, tried_open,
             opened, calls, gen_log>>
handlerVars == <<ALLOWED_CHAT_IDS, ALLOWED_TG_USERS, REPORT_CHAT_ID, update, hpc,
                 access, send_report_calls, replies, log_calls, hresult>>
rowVars == <<today, done_start, done_end, in_progress_start, in_progress_end,
             rows_done, row, done_tasks, in_progress_tasks, warning_calls, rpc,
             report_out>>
vars == <<splitVars, sendVars, genVars, handlerVars, rowVars>>

\* what the actions of one part of the program leave alone
notSplitVars == <<sendVars, genVars, handlerVars, rowVars>>
notSendVars == <<splitVars, genVars, handlerVars, rowVars>>
notGenVars == <<splitVars, sendVars, handlerVars, rowVars>>
notHandlerVars == <<splitVars, sendVars, genVars, rowVars>>
notRowVars == <<splitVars, sendVars, genVars, handlerVars>>

\* ------------------------------------------------------------------ bounds
MaxLines == 5      \* lines of a report text
MaxLimit == 5      \* largest chunk limit tried
MaxChunks == 3     \* chunks of one delivery
NThreads == 2      \* worker threads of asyncio.to_thread
MaxCalls == 3      \* generate_report_threadsafe calls of one run
MaxId == 2         \* chat ids run over -MaxId..MaxId without 0, user ids over 1..MaxId
MaxIdLen == 3      \* characters of a REPORT_CHAT_ID value
MaxRows == 2       \* rows of the spreadsheet
MaxDays == 7       \* consecutive days `today` runs over
MaxEntries == 3    \* item lines of a one-section report
MaxLinkLen == 3    \* characters of a link after its scheme
MaxWeekYears == 3  \* consecutive years `today` runs over, from 2023 on

\* ------------------------------------------------------- program constants
SEND_RETRY_ATTEMPTS == 3
SEND_RETRY_BASE_DELAY_SEC == 1

\* ----------------------------------------------------------------- strings
NL == "\n"
PLACEHOLDER == <<"*", " ", "-">>

Max(a, b) == IF a >= b THEN a ELSE b
Min(a, b) == IF a <= b THEN a ELSE b

\* "\n".join(lines)
RECURSIVE Join(_)
Join(lines) ==
    IF lines = <<>> THEN <<>>
    ELSE IF Len(lines) = 1 THEN lines[1]
    ELSE lines[1] \o <<NL>> \o Join(Tail(lines))

\* str.splitlines(): every newline ends a line; what follows the last newline
\* is a line only when it is not empty.
RECURSIVE splitlines_from(_, _, _)
splitlines_from(text, i, cur) ==
    IF i > Len(text) THEN (IF cur = <<>> THEN <<>> ELSE <<cur>>)
    ELSE IF text[i] = NL THEN <<cur>> \o splitlines_from(text, i + 1, <<>>)
    ELSE splitlines_from(text, i + 1, Append(cur, text[i]))

splitlines(text) == splitlines_from(text, 1, <<>>)

\* str.strip(): the whitespace at both ends is dropped
Whitespace == {" ", NL}

RECURSIVE lstrip(_)
lstrip(text) ==
    IF text # <<>> /\ text[1] \in Whitespace THEN lstrip(Tail(text)) ELSE text

RECURSIVE rstrip(_)
rstrip(text) ==
    IF text # <<>> /\ text[Len(text)] \in Whitespace
    THEN rstrip(SubSeq(text, 1, Len(text) - 1))
    ELSE text

strip(text) == rstrip(lstrip(text))

\* the decimal digits and their values
DigitChars == <<"0", "1", "2", "3", "4", "5", "6", "7", "8", "9">>
IsDigit(c) == \E v \in 1..10 : DigitChars[v] = c
DigitValue(c) == (CHOOSE v \in 1..10 : DigitChars[v] = c) - 1

\* what int(text) does: a value, or ValueError
ValueError == [ok |-> FALSE, value |-> 0]
Parsed(n) == [ok |-> TRUE, value |-> n]

\* the digits of an integer literal after the first: single underscores may
\* stand between digits
RECURSIVE int_digits(_, _)
int_digits(text, acc) ==
    IF text = <<>> THEN Parsed(acc)
    ELSE IF IsDigit(text[1])
    THEN int_digits(Tail(text), 10 * acc + DigitValue(text[1]))
    ELSE IF text[1] = "_" /\ Len(text) >= 2 /\ IsDigit(text[2])
    THEN int_digits(Tail(Tail(text)), 10 * acc + DigitValue(text[2]))
    ELSE ValueError

\* mutant: a sign is not accepted
int_unsigned(text) ==
    LET body == strip(text)
    IN  IF body # <<>> /\ IsDigit(body[1])
        THEN int_digits(Tail(body), DigitValue(body[1]))
        ELSE ValueError

\* int(text) of a str: surrounding whitespace is dropped, one sign may lead,
\* then come the digits
int(text) ==
    LET stripped == strip(text)
        signed == stripped # <<>> /\ stripped[1] \in {"+", "-"}
        body == IF signed THEN Tail(stripped) ELSE stripped
        magnitude == IF body # <<>> /\ IsDigit(body[1])
                     THEN int_digits(Tail(body), DigitValue(body[1]))
                     ELSE ValueError
    IN  IF magnitude.ok /\ signed /\ stripped[1] = "-"
        THEN Parsed(0 - magnitude.value)
        ELSE magnitude

\* str(n) of an int
RECURSIVE str_nat(_)
str_nat(n) ==
    IF n < 10 THEN <<DigitChars[n + 1]>>
    ELSE Append(str_nat(n \div 10), DigitChars[(n % 10) + 1])

str_int(n) == IF n < 0 THEN <<"-">> \o str_nat(0 - n) ELSE str_nat(n)

\* not line.strip()
IsBlank(line) == \A i \in 1..Len(line) : line[i] \in {" ", NL}

\* line[start : start + width], start counted from 0 as in the source
Slice(line, start, width) == SubSeq(line, start + 1, Min(start + width, Len(line)))

\* mutant: the slicing loop steps one character too far and drops it
RECURSIVE HardSplit_skipping(_, _, _)
HardSplit_skipping(line, start, width) ==
    IF start < Len(line)
    THEN <<Slice(line, start, width)>> \o HardSplit_skipping(line, start + width + 1, width)
    ELSE <<>>

\* while start < len(line): append line[start : start + width]; start += width
RECURSIVE HardSplit(_, _, _)
HardSplit(line, start, width) ==
    IF start < Len(line)
    THEN <<Slice(line, start, width)>> \o HardSplit(line, start + width, width)
    ELSE <<>>

\* ------------------------------------------------- _split_report_chunks
RECURSIVE chunks_loop(_, _, _, _, _)
chunks_loop(lines, i, lim, acc, current) ==
    IF i > Len(lines)
    THEN (IF current # <<>> THEN Append(acc, current) ELSE acc)
    ELSE LET line == lines[i]
             candidate == IF current = <<>> THEN line ELSE current \o <<NL>> \o line
             flushed == IF current # <<>> THEN Append(acc, current) ELSE acc
         IN  IF Len(candidate) <= lim
             THEN chunks_loop(lines, i + 1, lim, acc, candidate)
             ELSE IF Len(line) <= lim
             THEN chunks_loop(lines, i + 1, lim, flushed, line)
             ELSE chunks_loop(lines, i + 1, lim, flushed \o HardSplit(line, 0, lim), <<>>)

\* mutant: `return chunks`, without `or [text]`
_split_report_chunks_no_fallback(text, lim) ==
    IF Len(text) <= lim THEN <<text>>
    ELSE chunks_loop(splitlines(text), 1, lim, <<>>, <<>>)

_split_report_chunks(text, lim) ==
    IF Len(text) <= lim THEN <<text>>
    ELSE LET out == chunks_loop(splitlines(text), 1, lim, <<>>, <<>>)
         IN  IF out # <<>> THEN out ELSE <<text>>

\* -------------------------------------------- _split_report_for_delivery
\* the blank-line-delimited sections of the text
RECURSIVE sections_loop(_, _, _, _)
sections_loop(lines, i, sections, current_section) ==
    IF i > Len(lines)
    THEN (IF current_section # <<>> THEN Append(sections, current_section) ELSE sections)
    ELSE IF IsBlank(lines[i])
    THEN sections_loop(lines, i + 1,
                       IF current_section # <<>>
                       THEN Append(sections, current_section) ELSE sections,
                       <<>>)
    ELSE sections_loop(lines, i + 1, sections, Append(current_section, lines[i]))

Sections(text) == sections_loop(splitlines(text), 1, <<>>, <<>>)

\* entries = section[1:] or ["* -"]
Entries(section) == IF Len(section) > 1 THEN Tail(section) ELSE <<PLACEHOLDER>>

\* entry_room = max(1, limit - len(title) - 1)
entry_room(title, lim) == Max(1, lim - Len(title) - 1)

\* mutant: the header is not put before the part
titled_bare(title, part) == part

\* f"{title}\n{part}"
titled(title, part) == title \o <<NL>> \o part

\* the chunks of one hard-split entry
titled_parts(title, entry, lim) ==
    LET parts == HardSplit(entry, 0, entry_room(title, lim))
    IN  [k \in 1..Len(parts) |-> titled(title, parts[k])]

\* if len(current_lines) > 1: chunks.append("\n".join(current_lines))
Flush(acc, current_lines) ==
    IF Len(current_lines) > 1 THEN Append(acc, Join(current_lines)) ELSE acc

\* mutant: every entry gets a chunk of its own, also when it fits the open one
RECURSIVE entries_loop_one_per_chunk(_, _, _, _, _, _)
entries_loop_one_per_chunk(title, entries, i, lim, acc, current_lines) ==
    IF i > Len(entries) THEN acc
    ELSE entries_loop_one_per_chunk(
             title, entries, i + 1, lim,
             acc \o (IF Len(titled(title, entries[i])) <= lim
                     THEN <<titled(title, entries[i])>>
                     ELSE titled_parts(title, entries[i], lim)),
             current_lines)

\* the loop over the entries of one section
RECURSIVE entries_loop(_, _, _, _, _, _)
entries_loop(title, entries, i, lim, acc, current_lines) ==
    IF i > Len(entries) THEN Flush(acc, current_lines)
    ELSE LET entry == entries[i]
             candidate == Join(Append(current_lines, entry))
             titled_entry == titled(title, entry)
         IN  IF Len(candidate) <= lim
             THEN entries_loop(title, entries, i + 1, lim, acc, Append(current_lines, entry))
             ELSE IF Len(titled_entry) <= lim
             THEN entries_loop(title, entries, i + 1, lim,
                               Flush(acc, current_lines), <<title, entry>>)
             ELSE entries_loop(title, entries, i + 1, lim,
                               Flush(acc, current_lines) \o titled_parts(title, entry, lim),
                               <<title>>)

\* the loop over the sections
RECURSIVE section_chunks(_, _, _, _)
section_chunks(sections, s, lim, acc) ==
    IF s > Len(sections) THEN acc
    ELSE section_chunks(sections, s + 1, lim,
                        entries_loop(sections[s][1], Entries(sections[s]), 1, lim,
                                     acc, <<sections[s][1]>>))

_split_report_for_delivery(text, lim) ==
    IF Len(text) <= lim THEN <<text>>
    ELSE LET sections == Sections(text)
         IN  IF sections = <<>> THEN _split_report_chunks(text, lim)
             ELSE LET out == section_chunks(sections, 1, lim, <<>>)
                  IN  IF out # <<>> THEN out ELSE _split_report_chunks(text, lim)

\* ------------------------------------------------- the chunker's inputs
Lines == { <<>>, <<" ">>, <<"a">>, <<"b", "b">>, <<"c", " ", "c">> }
LineSeqs == UNION { [1..n -> Lines] : n \in 0..MaxLines }
Texts == { Join(ls) : ls \in LineSeqs }
Limits == 1..MaxLimit

NoMsg == [kind |-> "none"]

\* Python's None, and a lock nobody holds
None == 0
Free == 0
Threads == 1..NThreads

\* an environment variable: unset (os.getenv gives None) or a string
Unset == [is_none |-> TRUE, text |-> <<>>]
EnvStr(text) == [is_none |-> FALSE, text |-> text]

NoUpdate == [message |-> FALSE, chat_id |-> 1, user_id |-> None]

HandlerIdle ==
    /\ ALLOWED_CHAT_IDS = {} /\ ALLOWED_TG_USERS = {} /\ REPORT_CHAT_ID = Unset
    /\ update = NoUpdate /\ hpc = "idle" /\ access = "none"
    /\ send_report_calls = <<>> /\ replies = <<>> /\ log_calls = <<>>
    /\ hresult = "none"

\* a calendar date, as datetime.date holds it
Date(y, m, d) == [year |-> y, month |-> m, day |-> d]

NoRow == [task |-> <<>>, link |-> <<>>, status |-> <<>>, date_closed |-> <<>>]

NoWindows ==
    /\ done_start = Date(1, 1, 1) /\ done_end = Date(1, 1, 1)
    /\ in_progress_start = Date(1, 1, 1) /\ in_progress_end = Date(1, 1, 1)

RowsIdle ==
    /\ today = Date(1, 1, 1) /\ NoWindows /\ rows_done = 0 /\ row = NoRow
    /\ done_tasks = <<>> /\ in_progress_tasks = <<>> /\ warning_calls = 0
    /\ rpc = "idle" /\ report_out = <<>>

GenIdle ==
    /\ _SHEET = None /\ _SHEET_LOCK = Free /\ _REPORT_LOCK = Free
    /\ tpc = [t \in Threads |-> "idle"]
    /\ sheet = [t \in Threads |-> None]
    /\ at_entry = [t \in Threads |-> None]
    /\ tried_open = [t \in Threads |-> FALSE]
    /\ opened = 0 /\ calls = 0 /\ gen_log = <<>>

SendIdle ==
    /\ pc = "idle" /\ generated = "pending" /\ intro = FALSE /\ chunks = <<>> /\ idx = 0 /\ msg = NoMsg
    /\ attempt = 0 /\ sent_chunks = 0 /\ failed_chunks = 0 /\ inflight = {}
    /\ events = <<>> /\ sends = <<>> /\ slept = <<>> /\ result = "none"

InitSplit ==
    /\ report_text \in Texts
    /\ limit \in Limits
    /\ split_chunks = <<>>
    /\ phase = "input"
    /\ SendIdle
    /\ GenIdle
    /\ HandlerIdle
    /\ RowsIdle

SplitForDelivery ==
    /\ phase = "input"
    /\ split_chunks' = _split_report_for_delivery(report_text, limit)
    /\ phase' = "split"
    /\ UNCHANGED <<report_text, limit, notSplitVars>>

\* the line-based splitter called on the same arguments
SplitChunks ==
    /\ phase = "input"
    /\ split_chunks' = _split_report_chunks(report_text, limit)
    /\ phase' = "chunks"
    /\ UNCHANGED <<report_text, limit, notSplitVars>>

NextSplit == SplitForDelivery \/ SplitChunks

SpecSplit == InitSplit /\ [][NextSplit]_vars

\* a report of one section: a header line and up to MaxEntries item lines,
\* among them an item long enough to be cut with room to spare in its last
\* chunk
PackTitles == { <<"a">>, <<"b", "b">> }
PackEntries == { <<"a">>, <<"b", "b">>, <<"c", "c", "c", "c">> }
PackTexts ==
    { Join(<<title>> \o entries) :
          title \in PackTitles,
          entries \in UNION { [1..k -> PackEntries] : k \in 0..MaxEntries } }

InitPack ==
    /\ report_text \in PackTexts
    /\ limit \in Limits
    /\ split_chunks = <<>>
    /\ phase = "input"
    /\ SendIdle
    /\ GenIdle
    /\ HandlerIdle
    /\ RowsIdle

NextPack == SplitForDelivery

SpecPack == InitPack /\ [][NextPack]_vars

\* ------------------------------------------------------ the delivery engine
\* how one awaited bot.send_message ends: it returns, raises TimedOut, or
\* raises another error
Outcomes == {"ok", "TimedOut", "Error"}

\* the keyword arguments of the three kinds of message send_report sends
IntroMsg ==
    [kind |-> "intro", text |-> <<"intro">>,
     parse_mode |-> "none", disable_web_page_preview |-> FALSE]

\* mutant: the chunks go out last first
ChunkMsg_reversed(cs, i) ==
    [kind |-> "chunk", text |-> cs[Len(cs) + 1 - i],
     parse_mode |-> "HTML", disable_web_page_preview |-> TRUE]

ChunkMsg(cs, i) ==
    [kind |-> "chunk", text |-> cs[i],
     parse_mode |-> "HTML", disable_web_page_preview |-> TRUE]

WarningMsg(failed, total) ==
    [kind |-> "warning", text |-> <<"warning", failed, total>>,
     parse_mode |-> "none", disable_web_page_preview |-> FALSE]

\* the chunk list of a delivery: m distinct chunk texts
ChunkList(m) == [i \in 1..m |-> <<"chunk", i>>]

\* mutant: the last-attempt test is off by one, a fourth call is made
RetryStep_off_by_one(att, outcome) ==
    IF outcome = "ok" THEN "return"
    ELSE IF outcome = "TimedOut"
    THEN (IF att > SEND_RETRY_ATTEMPTS THEN "raise_TimedOut" ELSE "retry")
    ELSE "raise_Error"

\* one pass of the loop of _send_message_with_retry after the awaited call
\* ended with `outcome`: return, sleep and go round again, or raise
RetryStep(att, outcome) ==
    IF outcome = "ok" THEN "return"
    ELSE IF outcome = "TimedOut"
    THEN (IF att >= SEND_RETRY_ATTEMPTS THEN "raise_TimedOut" ELSE "retry")
    ELSE "raise_Error"

\* mutant: the same delay after every timed-out attempt
RetryDelay_constant(att) == SEND_RETRY_BASE_DELAY_SEC

\* delay = SEND_RETRY_BASE_DELAY_SEC * attempt
RetryDelay(att) == SEND_RETRY_BASE_DELAY_SEC * att

\* mutant: except Exception around the send of a chunk
CaughtInChunkLoop_any(raised) == raised \in {"raise_TimedOut", "raise_Error"}

\* mutant: no except clause around the send of a chunk
CaughtInChunkLoop_none(raised) == FALSE

\* except TimedOut: around the send of a chunk
CaughtInChunkLoop(raised) == raised = "raise_TimedOut"

\* mutant: except TimedOut around the send of the intro
CaughtAtIntro_timeouts(raised) == raised = "raise_TimedOut"

\* no try around the send of the intro
CaughtAtIntro(raised) == FALSE

\* except TimedOut: around the send of the warning
CaughtAtWarning(raised) == raised = "raise_TimedOut"

\* mutant: the test for a delivery with no chunk sent is missing
AllChunksFailed_never(sent) == FALSE

\* if sent_chunks == 0: raise TimedOut(...)
AllChunksFailed(sent) == sent = 0

\* mutant: the warning is sent whether or not a chunk failed
NeedsWarning_always(failed) == failed >= 0

\* if failed_chunks > 0: send the warning
NeedsWarning(failed) == failed > 0

\* send_report ends: it returns ("returned") or an exception leaves it
Ends(how) ==
    /\ pc' = "done"
    /\ result' = how
    /\ UNCHANGED <<msg, attempt>>

\* await _send_message_with_retry(application.bot, **m)
StartSend(m) ==
    /\ pc' = "send"
    /\ msg' = m
    /\ attempt' = 1
    /\ UNCHANGED result

Raised(step) == IF step = "raise_TimedOut" THEN "raised_TimedOut" ELSE "raised_Error"

\* what follows the chunk loop
AfterLoop(sent, failed) ==
    IF AllChunksFailed(sent) THEN Ends("raised_TimedOut")
    ELSE IF NeedsWarning(failed) THEN StartSend(WarningMsg(failed, Len(chunks)))
    ELSE Ends("returned")

\* the end of one pass of the chunk loop, with the counters as they are now
NextChunk(sent, failed) ==
    /\ sent_chunks' = sent
    /\ failed_chunks' = failed
    /\ IF idx < Len(chunks)
       THEN idx' = idx + 1 /\ StartSend(ChunkMsg(chunks, idx + 1))
       ELSE idx' = idx /\ AfterLoop(sent, failed)

\* send_report after _send_message_with_retry returned or raised
AfterSend(step) ==
    IF msg.kind = "intro"
    THEN IF step = "return" \/ CaughtAtIntro(step)
         THEN /\ idx' = 1
              /\ StartSend(ChunkMsg(chunks, 1))
              /\ UNCHANGED <<sent_chunks, failed_chunks>>
         ELSE Ends(Raised(step)) /\ UNCHANGED <<idx, sent_chunks, failed_chunks>>
    ELSE IF msg.kind = "chunk"
    THEN IF step = "return" THEN NextChunk(sent_chunks + 1, failed_chunks)
         ELSE IF CaughtInChunkLoop(step) THEN NextChunk(sent_chunks, failed_chunks + 1)
         ELSE Ends(Raised(step)) /\ UNCHANGED <<idx, sent_chunks, failed_chunks>>
    ELSE IF step = "return" \/ CaughtAtWarning(step)
         THEN Ends("returned") /\ UNCHANGED <<idx, sent_chunks, failed_chunks>>
         ELSE Ends(Raised(step)) /\ UNCHANGED <<idx, sent_chunks, failed_chunks>>

SplitIdle ==
    /\ report_text = <<>> /\ limit = 0 /\ split_chunks = <<>> /\ phase = "idle"

\* send_report has been called and awaits the report text
Init ==
    /\ SplitIdle
    /\ GenIdle
    /\ HandlerIdle
    /\ RowsIdle
    /\ pc = "start"
    /\ generated = "pending"
    /\ intro \in BOOLEAN
    /\ chunks = <<>> /\ idx = 0 /\ msg = NoMsg /\ attempt = 0
    /\ sent_chunks = 0 /\ failed_chunks = 0 /\ inflight = {}
    /\ events = <<>> /\ sends = <<>> /\ slept = <<>> /\ result = "none"

\* mutant: the failure of the generation is swallowed and an empty report
\* is delivered
GenerateFails_swallowed ==
    /\ pc = "start"
    /\ generated' = "raised"
    /\ chunks' = <<<<>>>>
    /\ idx' = 1
    /\ StartSend(ChunkMsg(chunks', 1))
    /\ UNCHANGED <<intro, sent_chunks, failed_chunks, inflight, events, sends,
                   slept, notSendVars>>

\* generate_report_threadsafe raised: the exception leaves send_report
GenerateFails ==
    /\ pc = "start"
    /\ generated' = "raised"
    /\ pc' = "done"
    /\ result' = "raised_Error"
    /\ UNCHANGED <<intro, chunks, idx, msg, attempt, sent_chunks, failed_chunks,
                   inflight, events, sends, slept, notSendVars>>

\* mutant: the intro is not sent as a message of its own
GenerateReturns_without_intro ==
    /\ pc = "start"
    /\ generated' = "returned"
    /\ \E m \in 1..MaxChunks : chunks' = ChunkList(m)
    /\ idx' = 1 /\ StartSend(ChunkMsg(chunks', 1))
    /\ UNCHANGED <<intro, sent_chunks, failed_chunks, inflight, events, sends,
                   slept, notSendVars>>

\* the report text came back and was split; the intro, if any, goes first
GenerateReturns ==
    /\ pc = "start"
    /\ generated' = "returned"
    /\ \E m \in 1..MaxChunks : chunks' = ChunkList(m)
    /\ IF intro
       THEN StartSend(IntroMsg) /\ idx' = idx
       ELSE idx' = 1 /\ StartSend(ChunkMsg(chunks', 1))
    /\ UNCHANGED <<intro, sent_chunks, failed_chunks, inflight, events, sends,
                   slept, notSendVars>>

\* await bot.send_message(**kwargs): the call goes out
CallStart ==
    /\ pc = "send"
    /\ pc' = "await"
    /\ inflight' = inflight \cup {[msg |-> msg, attempt |-> attempt]}
    /\ events' = Append(events, [type |-> "start", msg |-> msg, attempt |-> attempt,
                                 outcome |-> "none"])
    /\ UNCHANGED <<generated, intro, chunks, idx, msg, attempt, sent_chunks,
                   failed_chunks, sends, slept, result, notSendVars>>

\* the awaited call ends; the retry loop and send_report run on to the next await
CallComplete ==
    /\ pc = "await"
    /\ \E c \in inflight, outcome \in Outcomes :
          LET step == RetryStep(attempt, outcome)
          IN  /\ inflight' = inflight \ {c}
              /\ events' = Append(events, [type |-> "end", msg |-> c.msg,
                                           attempt |-> c.attempt, outcome |-> outcome])
              /\ IF step = "retry"
                 THEN /\ slept' = Append(slept, RetryDelay(attempt))
                      /\ attempt' = attempt + 1
                      /\ pc' = "send"
                      /\ UNCHANGED <<idx, msg, sent_chunks, failed_chunks, sends, result>>
                 ELSE /\ sends' = Append(sends, [msg |-> msg, ended |-> step,
                                                 attempts |-> attempt])
                      /\ slept' = slept
                      /\ AfterSend(step)
    /\ UNCHANGED <<generated, intro, chunks, notSendVars>>

Next == GenerateFails \/ GenerateReturns \/ CallStart \/ CallComplete

Spec == Init /\ [][Next]_vars

\* --------------------------------- generate_report_threadsafe, get_sheet
\* asyncio.to_thread(generate_report_threadsafe) runs on a pool thread; several
\* send_report coroutines (the /otchet handler, the scheduled job) may have
\* one under way at the same time.
InitGen ==
    /\ SplitIdle
    /\ SendIdle
    /\ GenIdle
    /\ HandlerIdle
    /\ RowsIdle

\* the thread is inside generate_report
InRegion(t) ==
    tpc[t] \in {"get_sheet", "with_sheet_lock", "recheck", "open", "return_sheet",
                "read", "except", "reset", "raise", "build"}

\* a pool thread starts generate_report_threadsafe
Call(t) ==
    /\ tpc[t] = "idle"
    /\ calls < MaxCalls
    /\ calls' = calls + 1
    /\ tpc' = [tpc EXCEPT ![t] = "with_report_lock"]
    /\ UNCHANGED <<_SHEET, _SHEET_LOCK, _REPORT_LOCK, sheet, at_entry, tried_open,
                   opened, gen_log, notGenVars>>

\* mutant: generate_report is entered without waiting for the lock
AcquireReportLock_without_waiting(t) ==
    /\ tpc[t] = "with_report_lock"
    /\ _REPORT_LOCK' = t
    /\ tpc' = [tpc EXCEPT ![t] = "get_sheet"]
    /\ at_entry' = [at_entry EXCEPT ![t] = _SHEET]
    /\ sheet' = [sheet EXCEPT ![t] = None]
    /\ tried_open' = [tried_open EXCEPT ![t] = FALSE]
    /\ UNCHANGED <<_SHEET, _SHEET_LOCK, opened, calls, gen_log, notGenVars>>

\* with _REPORT_LOCK: the lock is taken and generate_report is entered
AcquireReportLock(t) ==
    /\ tpc[t] = "with_report_lock"
    /\ _REPORT_LOCK = Free
    /\ _REPORT_LOCK' = t
    /\ tpc' = [tpc EXCEPT ![t] = "get_sheet"]
    /\ at_entry' = [at_entry EXCEPT ![t] = _SHEET]
    /\ sheet' = [sheet EXCEPT ![t] = None]
    /\ tried_open' = [tried_open EXCEPT ![t] = FALSE]
    /\ UNCHANGED <<_SHEET, _SHEET_LOCK, opened, calls, gen_log, notGenVars>>

\* get_sheet: if _SHEET is not None: return _SHEET
GetSheetFast(t) ==
    /\ tpc[t] = "get_sheet"
    /\ IF _SHEET # None
       THEN /\ sheet' = [sheet EXCEPT ![t] = _SHEET]
            /\ tpc' = [tpc EXCEPT ![t] = "read"]
       ELSE /\ sheet' = sheet
            /\ tpc' = [tpc EXCEPT ![t] = "with_sheet_lock"]
    /\ UNCHANGED <<_SHEET, _SHEET_LOCK, _REPORT_LOCK, at_entry, tried_open, opened,
                   calls, gen_log, notGenVars>>

\* get_sheet: with _SHEET_LOCK
AcquireSheetLock(t) ==
    /\ tpc[t] = "with_sheet_lock"
    /\ _SHEET_LOCK = Free
    /\ _SHEET_LOCK' = t
    /\ tpc' = [tpc EXCEPT ![t] = "recheck"]
    /\ UNCHANGED <<_SHEET, _REPORT_LOCK, sheet, at_entry, tried_open, opened, calls,
                   gen_log, notGenVars>>

\* mutant: the cache is not looked at again under the lock
RecheckSheet_missing(t) ==
    /\ tpc[t] = "recheck"
    /\ tpc' = [tpc EXCEPT ![t] = "open"]
    /\ tried_open' = [tried_open EXCEPT ![t] = TRUE]
    /\ UNCHANGED <<_SHEET, _SHEET_LOCK, _REPORT_LOCK, sheet, at_entry, opened, calls,
                   gen_log, notGenVars>>

\* get_sheet, under the lock: if _SHEET is not None: return _SHEET
RecheckSheet(t) ==
    /\ tpc[t] = "recheck"
    /\ IF _SHEET # None
       THEN /\ sheet' = [sheet EXCEPT ![t] = _SHEET]
            /\ _SHEET_LOCK' = Free
            /\ tpc' = [tpc EXCEPT ![t] = "read"]
            /\ tried_open' = tried_open
       ELSE /\ sheet' = sheet
            /\ _SHEET_LOCK' = _SHEET_LOCK
            /\ tpc' = [tpc EXCEPT ![t] = "open"]
            /\ tried_open' = [tried_open EXCEPT ![t] = TRUE]
    /\ UNCHANGED <<_SHEET, _REPORT_LOCK, at_entry, opened, calls, gen_log, notGenVars>>

\* get_sheet, under the lock: credentials, authorize, open_by_key, worksheet;
\* the handle is stored, or an exception leaves the with block
OpenSheet(t) ==
    /\ tpc[t] = "open"
    /\ _SHEET_LOCK' = Free
    /\ \E ok \in BOOLEAN :
          IF ok
          THEN /\ opened' = opened + 1
               /\ _SHEET' = opened + 1
               /\ tpc' = [tpc EXCEPT ![t] = "return_sheet"]
          ELSE /\ UNCHANGED <<opened, _SHEET>>
               /\ tpc' = [tpc EXCEPT ![t] = "except"]
    /\ UNCHANGED <<_REPORT_LOCK, sheet, at_entry, tried_open, calls, gen_log, notGenVars>>

\* get_sheet, after the with block: return _SHEET
ReturnSheet(t) ==
    /\ tpc[t] = "return_sheet"
    /\ sheet' = [sheet EXCEPT ![t] = _SHEET]
    /\ tpc' = [tpc EXCEPT ![t] = "read"]
    /\ UNCHANGED <<_SHEET, _SHEET_LOCK, _REPORT_LOCK, at_entry, tried_open, opened,
                   calls, gen_log, notGenVars>>

\* records = sheet.get_all_records(): the rows come back or the call raises
\* (it always raises on None)
ReadRecords(t) ==
    /\ tpc[t] = "read"
    /\ \E ok \in BOOLEAN :
          IF ok /\ sheet[t] # None
          THEN tpc' = [tpc EXCEPT ![t] = "build"]
          ELSE tpc' = [tpc EXCEPT ![t] = "except"]
    /\ UNCHANGED <<_SHEET, _SHEET_LOCK, _REPORT_LOCK, sheet, at_entry, tried_open,
                   opened, calls, gen_log, notGenVars>>

\* except Exception: with _SHEET_LOCK
ExceptAcquire(t) ==
    /\ tpc[t] = "except"
    /\ _SHEET_LOCK = Free
    /\ _SHEET_LOCK' = t
    /\ tpc' = [tpc EXCEPT ![t] = "reset"]
    /\ UNCHANGED <<_SHEET, _REPORT_LOCK, sheet, at_entry, tried_open, opened, calls,
                   gen_log, notGenVars>>

\* mutant: the handler does not empty the cache
ResetSheet_keeping(t) ==
    /\ tpc[t] = "reset"
    /\ _SHEET_LOCK' = Free
    /\ tpc' = [tpc EXCEPT ![t] = "raise"]
    /\ UNCHANGED <<_SHEET, _REPORT_LOCK, sheet, at_entry, tried_open, opened, calls,
                   gen_log, notGenVars>>

\* except Exception, under the lock: _SHEET = None
ResetSheet(t) ==
    /\ tpc[t] = "reset"
    /\ _SHEET' = None
    /\ _SHEET_LOCK' = Free
    /\ tpc' = [tpc EXCEPT ![t] = "raise"]
    /\ UNCHANGED <<_REPORT_LOCK, sheet, at_entry, tried_open, opened, calls,
                   gen_log, notGenVars>>

\* one ended execution of generate_report, as it left the function
Ended(t, how) ==
    [thread |-> t, ended |-> how, entry |-> at_entry[t], exit |-> _SHEET,
     used |-> sheet[t], tried_open |-> tried_open[t]]

\* the exception is logged and raised again; it leaves generate_report and the
\* with block of generate_report_threadsafe, which releases _REPORT_LOCK
Raise(t) ==
    /\ tpc[t] = "raise"
    /\ gen_log' = Append(gen_log, Ended(t, "raised"))
    /\ _REPORT_LOCK' = Free
    /\ tpc' = [tpc EXCEPT ![t] = "idle"]
    /\ UNCHANGED <<_SHEET, _SHEET_LOCK, sheet, at_entry, tried_open, opened, calls,
                   notGenVars>>

\* the rows are classified and the text assembled; generate_report returns
\* and the with block of generate_report_threadsafe releases _REPORT_LOCK
Return(t) ==
    /\ tpc[t] = "build"
    /\ gen_log' = Append(gen_log, Ended(t, "returned"))
    /\ _REPORT_LOCK' = Free
    /\ tpc' = [tpc EXCEPT ![t] = "idle"]
    /\ UNCHANGED <<_SHEET, _SHEET_LOCK, sheet, at_entry, tried_open, opened, calls,
                   notGenVars>>

\* the steps of a call that is under way
Proceed(t) ==
    \/ AcquireReportLock(t)
    \/ GetSheetFast(t)
    \/ AcquireSheetLock(t)
    \/ RecheckSheet(t)
    \/ OpenSheet(t)
    \/ ReturnSheet(t)
    \/ ReadRecords(t)
    \/ ExceptAcquire(t)
    \/ ResetSheet(t)
    \/ Raise(t)
    \/ Return(t)

NextGen == \E t \in Threads : Call(t) \/ Proceed(t)

SpecGen == InitGen /\ [][NextGen]_vars

\* a pool thread that is runnable runs, and the calls to Google Sheets return
\* or raise
SpecGenFair == SpecGen /\ \A t \in Threads : WF_vars(Proceed(t))

\* ------------------------------------- get_sheet called by several threads
\* the try block of generate_report run by several threads at once, without
\* the report lock: get_sheet is called, its handle comes back to the caller,
\* or its exception reaches the handler that empties the cache
CallGetSheet(t) ==
    /\ tpc[t] = "idle"
    /\ calls < MaxCalls
    /\ calls' = calls + 1
    /\ tpc' = [tpc EXCEPT ![t] = "get_sheet"]
    /\ at_entry' = [at_entry EXCEPT ![t] = _SHEET]
    /\ sheet' = [sheet EXCEPT ![t] = None]
    /\ tried_open' = [tried_open EXCEPT ![t] = FALSE]
    /\ UNCHANGED <<_SHEET, _SHEET_LOCK, _REPORT_LOCK, opened, gen_log, notGenVars>>

\* sheet = get_sheet(): the caller has the handle
GetSheetReturned(t) ==
    /\ tpc[t] = "read"
    /\ gen_log' = Append(gen_log, Ended(t, "returned"))
    /\ tpc' = [tpc EXCEPT ![t] = "idle"]
    /\ UNCHANGED <<_SHEET, _SHEET_LOCK, _REPORT_LOCK, sheet, at_entry, tried_open,
                   opened, calls, notGenVars>>

InGetSheet(t) ==
    \/ GetSheetFast(t)
    \/ AcquireSheetLock(t)
    \/ RecheckSheet(t)
    \/ OpenSheet(t)
    \/ ReturnSheet(t)

Handler(t) == ExceptAcquire(t) \/ ResetSheet(t) \/ Raise(t)

NextSheet ==
    \E t \in Threads : CallGetSheet(t) \/ InGetSheet(t) \/ GetSheetReturned(t) \/ Handler(t)

SpecSheet == InitGen /\ [][NextSheet]_vars

\* ------------------------------------------- access check, /otchet handler
\* if not ALLOWED_CHAT_IDS: return True; return chat_id in ALLOWED_CHAT_IDS
_is_allowed_chat(chat_id) ==
    IF ALLOWED_CHAT_IDS = {} THEN TRUE
    ELSE chat_id \in ALLOWED_CHAT_IDS

\* mutant: a missing user id is denied whatever the list
_is_allowed_user_strict(user_id) ==
    IF user_id = None THEN FALSE
    ELSE IF ALLOWED_TG_USERS = {} THEN TRUE
    ELSE user_id \in ALLOWED_TG_USERS

\* if not ALLOWED_TG_USERS: return True; if user_id is None: return False;
\* return user_id in ALLOWED_TG_USERS
_is_allowed_user(user_id) ==
    IF ALLOWED_TG_USERS = {} THEN TRUE
    ELSE IF user_id = None THEN FALSE
    ELSE user_id \in ALLOWED_TG_USERS

\* the two fixed reply texts of the handler (in Russian in the source)
DENIED_TEXT == "Insufficient rights to run the command."
FAILED_TEXT == "The report could not be built. Check the service logs."

ChatIds == (-MaxId..MaxId) \ {0}
UserIds == 1..MaxId
Updates == [message : BOOLEAN, chat_id : ChatIds, user_id : UserIds \cup {None}]

\* the module is imported and the dispatcher calls report(update, context)
InitReport ==
    /\ SplitIdle /\ SendIdle /\ GenIdle /\ RowsIdle
    /\ ALLOWED_CHAT_IDS \in SUBSET ChatIds
    /\ ALLOWED_TG_USERS \in SUBSET UserIds
    /\ REPORT_CHAT_ID = Unset
    /\ update \in Updates
    /\ hpc = "start" /\ access = "none"
    /\ send_report_calls = <<>> /\ replies = <<>> /\ log_calls = <<>>
    /\ hresult = "none"

\* if not update.message: return
ReportNoMessage ==
    /\ hpc = "start"
    /\ ~update.message
    /\ hpc' = "done"
    /\ hresult' = "returned"
    /\ UNCHANGED <<ALLOWED_CHAT_IDS, ALLOWED_TG_USERS, REPORT_CHAT_ID, update, access,
                   send_report_calls, replies, log_calls, notHandlerVars>>

\* mutant: a denied command gets no answer
ReportDenied_silent ==
    /\ hpc = "start"
    /\ update.message
    /\ ~_is_allowed_chat(update.chat_id) \/ ~_is_allowed_user(update.user_id)
    /\ access' = "denied"
    /\ hpc' = "done"
    /\ hresult' = "returned"
    /\ UNCHANGED <<ALLOWED_CHAT_IDS, ALLOWED_TG_USERS, REPORT_CHAT_ID, update,
                   send_report_calls, replies, log_calls, notHandlerVars>>

\* the access check fails: await update.message.reply_text(denial)
ReportDenied ==
    /\ hpc = "start"
    /\ update.message
    /\ ~_is_allowed_chat(update.chat_id) \/ ~_is_allowed_user(update.user_id)
    /\ access' = "denied"
    /\ replies' = Append(replies, DENIED_TEXT)
    /\ hpc' = "reply_denied"
    /\ UNCHANGED <<ALLOWED_CHAT_IDS, ALLOWED_TG_USERS, REPORT_CHAT_ID, update,
                   send_report_calls, log_calls, hresult, notHandlerVars>>

\* the access check passes: await send_report(update.effective_chat.id, ...)
ReportAllowed ==
    /\ hpc = "start"
    /\ update.message
    /\ ~(~_is_allowed_chat(update.chat_id) \/ ~_is_allowed_user(update.user_id))
    /\ access' = "allowed"
    /\ send_report_calls' = Append(send_report_calls, update.chat_id)
    /\ hpc' = "send_report"
    /\ UNCHANGED <<ALLOWED_CHAT_IDS, ALLOWED_TG_USERS, REPORT_CHAT_ID, update,
                   replies, log_calls, hresult, notHandlerVars>>

\* send_report returned, or raised: except Exception logs it and answers
ReportSendReportEnds ==
    /\ hpc = "send_report"
    /\ \E raised \in BOOLEAN :
          IF raised
          THEN /\ log_calls' = Append(log_calls, "exception")
               /\ replies' = Append(replies, FAILED_TEXT)
               /\ hpc' = "reply_failed"
               /\ hresult' = hresult
          ELSE /\ hpc' = "done"
               /\ hresult' = "returned"
               /\ UNCHANGED <<log_calls, replies>>
    /\ UNCHANGED <<ALLOWED_CHAT_IDS, ALLOWED_TG_USERS, REPORT_CHAT_ID, update, access,
                   send_report_calls, notHandlerVars>>

\* the awaited reply_text returned, or raised: nothing catches it
ReplyEnds ==
    /\ hpc \in {"reply_denied", "reply_failed"}
    /\ hpc' = "done"
    /\ \E raised \in BOOLEAN : hresult' = IF raised THEN "raised" ELSE "returned"
    /\ UNCHANGED <<ALLOWED_CHAT_IDS, ALLOWED_TG_USERS, REPORT_CHAT_ID, update, access,
                   send_report_calls, replies, log_calls, notHandlerVars>>

NextReport ==
    \/ ReportNoMessage
    \/ ReportDenied
    \/ ReportAllowed
    \/ ReportSendReportEnds
    \/ ReplyEnds

SpecReport == InitReport /\ [][NextReport]_vars

\* ------------------------------------------------------- scheduled_report
\* the characters a REPORT_CHAT_ID value is made of here
IdChars == {"-", "+", "0", "1", "2", "a", " ", "_"}
IdTexts == UNION { [1..n -> IdChars] : n \in 0..MaxIdLen }

\* the module is imported and the scheduler's job runs scheduled_report
InitScheduled ==
    /\ SplitIdle /\ SendIdle /\ GenIdle /\ RowsIdle
    /\ ALLOWED_CHAT_IDS = {} /\ ALLOWED_TG_USERS = {}
    /\ REPORT_CHAT_ID \in {Unset} \cup { EnvStr(text) : text \in IdTexts }
    /\ update = NoUpdate
    /\ hpc = "start" /\ access = "none"
    /\ send_report_calls = <<>> /\ replies = <<>> /\ log_calls = <<>>
    /\ hresult = "none"

\* not REPORT_CHAT_ID: None and the empty string are falsy
NotConfigured(env) == env.is_none \/ env.text = <<>>

\* if not REPORT_CHAT_ID: logger.warning(...); return
ScheduledNotConfigured ==
    /\ hpc = "start"
    /\ NotConfigured(REPORT_CHAT_ID)
    /\ log_calls' = Append(log_calls, "warning")
    /\ hpc' = "done"
    /\ hresult' = "returned"
    /\ UNCHANGED <<ALLOWED_CHAT_IDS, ALLOWED_TG_USERS, REPORT_CHAT_ID, update, access,
                   send_report_calls, replies, notHandlerVars>>

\* int(REPORT_CHAT_ID) raises ValueError: logger.error(...); return
ScheduledBadId ==
    /\ hpc = "start"
    /\ ~NotConfigured(REPORT_CHAT_ID)
    /\ ~int(REPORT_CHAT_ID.text).ok
    /\ log_calls' = Append(log_calls, "error")
    /\ hpc' = "done"
    /\ hresult' = "returned"
    /\ UNCHANGED <<ALLOWED_CHAT_IDS, ALLOWED_TG_USERS, REPORT_CHAT_ID, update, access,
                   send_report_calls, replies, notHandlerVars>>

\* chat_id_int = int(REPORT_CHAT_ID); await send_report(chat_id_int, application)
ScheduledCallsSendReport ==
    /\ hpc = "start"
    /\ ~NotConfigured(REPORT_CHAT_ID)
    /\ int(REPORT_CHAT_ID.text).ok
    /\ send_report_calls' = Append(send_report_calls, int(REPORT_CHAT_ID.text).value)
    /\ hpc' = "send_report"
    /\ UNCHANGED <<ALLOWED_CHAT_IDS, ALLOWED_TG_USERS, REPORT_CHAT_ID, update, access,
                   replies, log_calls, hresult, notHandlerVars>>

\* send_report returned, or raised: except Exception logs it
ScheduledSendReportEnds ==
    /\ hpc = "send_report"
    /\ \E raised \in BOOLEAN :
          log_calls' = IF raised THEN Append(log_calls, "exception") ELSE log_calls
    /\ hpc' = "done"
    /\ hresult' = "returned"
    /\ UNCHANGED <<ALLOWED_CHAT_IDS, ALLOWED_TG_USERS, REPORT_CHAT_ID, update, access,
                   send_report_calls, replies, notHandlerVars>>

NextScheduled ==
    \/ ScheduledNotConfigured
    \/ ScheduledBadId
    \/ ScheduledCallsSendReport
    \/ ScheduledSendReportEnds

SpecScheduled == InitScheduled /\ [][NextScheduled]_vars

\* ------------------------------- a caller and the send_report it awaits
\* the /otchet handler run on a command from an allowed chat, or the
\* scheduled job run with a numeric REPORT_CHAT_ID; send_report is the
\* delivery engine itself
InitInvocation ==
    /\ SplitIdle /\ GenIdle /\ RowsIdle
    /\ pc = "idle" /\ generated = "pending" /\ intro \in BOOLEAN
    /\ chunks = <<>> /\ idx = 0 /\ msg = NoMsg /\ attempt = 0
    /\ sent_chunks = 0 /\ failed_chunks = 0 /\ inflight = {}
    /\ events = <<>> /\ sends = <<>> /\ slept = <<>> /\ result = "none"
    /\ ALLOWED_CHAT_IDS = {} /\ ALLOWED_TG_USERS = {}
    /\ \/ /\ update = [message |-> TRUE, chat_id |-> 1, user_id |-> 1]
          /\ REPORT_CHAT_ID = Unset
       \/ /\ update = NoUpdate
          /\ REPORT_CHAT_ID = EnvStr(<<"-", "1">>)
    /\ hpc = "start" /\ access = "none"
    /\ send_report_calls = <<>> /\ replies = <<>> /\ log_calls = <<>>
    /\ hresult = "none"

\* the awaited send_report starts to run
SendReportCalled ==
    /\ hpc = "send_report"
    /\ pc = "idle"
    /\ pc' = "start"
    /\ UNCHANGED <<generated, intro, chunks, idx, msg, attempt, sent_chunks,
                   failed_chunks, inflight, events, sends, slept, result, notSendVars>>

\* report: send_report returned or raised, as the delivery engine ended
ReportAfterSendReport ==
    /\ update.message
    /\ pc = "done"
    /\ ReportSendReportEnds
    /\ (hpc' = "reply_failed") <=> (result # "returned")

\* scheduled_report: send_report returned or raised, as the delivery engine ended
ScheduledAfterSendReport ==
    /\ ~update.message
    /\ pc = "done"
    /\ ScheduledSendReportEnds
    /\ (log_calls' # log_calls) <=> (result # "returned")

NextInvocation ==
    \/ ReportAllowed
    \/ ScheduledCallsSendReport
    \/ SendReportCalled
    \/ GenerateFails
    \/ GenerateReturns
    \/ CallStart
    \/ CallComplete
    \/ ReportAfterSendReport
    \/ ReplyEnds
    \/ ScheduledAfterSendReport

SpecInvocation == InitInvocation /\ [][NextInvocation]_vars

\* ------------------------------------------------------------ week windows
IsLeap(y) == (y % 4 = 0 /\ y % 100 # 0) \/ y % 400 = 0

DaysInMonth(y, m) ==
    IF m = 2 THEN (IF IsLeap(y) THEN 29 ELSE 28)
    ELSE IF m \in {4, 6, 9, 11} THEN 30
    ELSE 31

RECURSIVE DaysBeforeMonth(_, _)
DaysBeforeMonth(y, m) ==
    IF m = 1 THEN 0 ELSE DaysBeforeMonth(y, m - 1) + DaysInMonth(y, m - 1)

\* date.toordinal(): the day number, 1 for 0001-01-01
toordinal(dt) ==
    LET before == dt.year - 1
    IN  before * 365 + before \div 4 - before \div 100 + before \div 400
        + DaysBeforeMonth(dt.year, dt.month) + dt.day

\* date.weekday(): 0 for Monday .. 6 for Sunday
weekday(dt) == (toordinal(dt) + 6) % 7

\* a <= b on dates
NotAfter(a, b) == toordinal(a) <= toordinal(b)

day_before(dt) ==
    IF dt.day > 1 THEN Date(dt.year, dt.month, dt.day - 1)
    ELSE IF dt.month > 1
    THEN Date(dt.year, dt.month - 1, DaysInMonth(dt.year, dt.month - 1))
    ELSE Date(dt.year - 1, 12, 31)

day_after(dt) ==
    IF dt.day < DaysInMonth(dt.year, dt.month) THEN Date(dt.year, dt.month, dt.day + 1)
    ELSE IF dt.month < 12 THEN Date(dt.year, dt.month + 1, 1)
    ELSE Date(dt.year + 1, 1, 1)

\* dt - timedelta(days=k)
RECURSIVE minus_days(_, _)
minus_days(dt, k) == IF k = 0 THEN dt ELSE minus_days(day_before(dt), k - 1)

\* dt + timedelta(days=k)
RECURSIVE plus_days(_, _)
plus_days(dt, k) == IF k = 0 THEN dt ELSE plus_days(day_after(dt), k - 1)

\* mutant: the done window starts seven days before today
last_week_dates_seven_back(day) ==
    <<minus_days(day, 7), plus_days(minus_days(day, 7), 6)>>

\* the previous week, Monday to Sunday
last_week_dates(day) ==
    LET last_monday == minus_days(day, weekday(day) + 7)
    IN  <<last_monday, plus_days(last_monday, 6)>>

\* the current week, Monday to Sunday
current_week_dates(day) ==
    LET start == minus_days(day, weekday(day))
    IN  <<start, plus_days(start, 6)>>

\* strftime("%B").lower(): the month's name, one token
WindowsOf(day) ==
    /\ done_start = last_week_dates(day)[1]
    /\ done_end = last_week_dates(day)[2]
    /\ in_progress_start = current_week_dates(day)[1]
    /\ in_progress_end = current_week_dates(day)[2]

windowVars == <<done_start, done_end, in_progress_start, in_progress_end>>

MonthNames ==
    <<"january", "february", "march", "april", "may", "june", "july", "august",
      "september", "october", "november", "december">>

format_date_range(start, end) ==
    IF start.month = end.month
    THEN str_nat(start.day) \o <<"-">> \o str_nat(end.day) \o <<" ">>
         \o <<MonthNames[start.month]>>
    ELSE str_nat(start.day) \o <<" ">> \o <<MonthNames[start.month]>>
         \o <<" ", "-", " ">> \o str_nat(end.day) \o <<" ">>
         \o <<MonthNames[end.month]>>

\* ----------------------------------------------------- parsing a closed date
\* text.split("."): the pieces between the dots
RECURSIVE split_dots(_, _, _)
split_dots(text, i, cur) ==
    IF i > Len(text) THEN <<cur>>
    ELSE IF text[i] = "." THEN <<cur>> \o split_dots(text, i + 1, <<>>)
    ELSE split_dots(text, i + 1, Append(cur, text[i]))

AllDigits(text) == \A i \in 1..Len(text) : IsDigit(text[i])

\* the number a string of digits writes
RECURSIVE digits_value(_, _)
digits_value(text, acc) ==
    IF text = <<>> THEN acc
    ELSE digits_value(Tail(text), 10 * acc + DigitValue(text[1]))

NoDate == [ok |-> FALSE, date |-> Date(1, 1, 1)]

\* datetime.strptime(text, "%d.%m.%Y").date(), or ValueError: %d and %m take
\* one or two digits (1..31, 1..12), %Y exactly four, nothing may remain, and
\* the day must exist in the month
strptime(text) ==
    LET parts == split_dots(text, 1, <<>>)
    IN  IF /\ Len(parts) = 3
           /\ Len(parts[1]) \in {1, 2} /\ AllDigits(parts[1])
           /\ Len(parts[2]) \in {1, 2} /\ AllDigits(parts[2])
           /\ Len(parts[3]) = 4 /\ AllDigits(parts[3])
        THEN LET d == digits_value(parts[1], 0)
                 m == digits_value(parts[2], 0)
                 y == digits_value(parts[3], 0)
             IN  IF /\ y >= 1
                    /\ m \in 1..12
                    /\ d >= 1
                    /\ d <= DaysInMonth(y, m)
                 THEN [ok |-> TRUE, date |-> Date(y, m, d)]
                 ELSE NoDate
        ELSE NoDate

\* ---------------------------------------------------------- a report line
\* html.escape(text, quote=False)
RECURSIVE _h(_)
_h(text) ==
    IF text = <<>> THEN <<>>
    ELSE (CASE text[1] = "&" -> <<"&", "a", "m", "p", ";">>
            [] text[1] = "<" -> <<"&", "l", "t", ";">>
            [] text[1] = ">" -> <<"&", "g", "t", ";">>
            [] OTHER -> <<text[1]>>) \o _h(Tail(text))

\* html.escape(text, quote=True)
RECURSIVE _h_attr(_)
_h_attr(text) ==
    IF text = <<>> THEN <<>>
    ELSE (CASE text[1] = "&" -> <<"&", "a", "m", "p", ";">>
            [] text[1] = "<" -> <<"&", "l", "t", ";">>
            [] text[1] = ">" -> <<"&", "g", "t", ";">>
            [] text[1] = "\"" -> <<"&", "q", "u", "o", "t", ";">>
            [] text[1] = "'" -> <<"&", "#", "x", "2", "7", ";">>
            [] OTHER -> <<text[1]>>) \o _h_attr(Tail(text))

\* the characters a URL scheme is made of, over the letters used here
SchemeLetters ==
    {"a", "b", "c", "d", "e", "f", "g", "h", "i", "j", "k", "l", "m", "n", "o", "p",
     "q", "r", "s", "t", "u", "v", "w", "x", "y", "z", "H", "T", "P", "S"}
SchemeChars == SchemeLetters \cup {"0", "1", "2", "+", "-", "."}

\* str.lower() over those letters
Lower(c) ==
    CASE c = "H" -> "h" [] c = "T" -> "t" [] c = "P" -> "p" [] c = "S" -> "s"
      [] OTHER -> c

\* url.find(":"): the position of the first colon, 0 when there is none
Find(text, c) ==
    IF \E i \in 1..Len(text) : text[i] = c
    THEN CHOOSE i \in 1..Len(text) : text[i] = c /\ \A j \in 1..(i - 1) : text[j] # c
    ELSE 0

\* urlparse drops every newline of the url before it looks at it
RECURSIVE urlparse_cleaned(_)
urlparse_cleaned(text) ==
    IF text = <<>> THEN <<>>
    ELSE IF text[1] = NL THEN urlparse_cleaned(Tail(text))
    ELSE <<text[1]>> \o urlparse_cleaned(Tail(text))

\* urlparse(url): the scheme, lower-cased, and what follows it
urlparse_scheme(raw) ==
    LET url == urlparse_cleaned(raw)
        i == Find(url, ":")
    IN  IF /\ i > 1
           /\ url[1] \in SchemeLetters
           /\ \A j \in 1..(i - 1) : url[j] \in SchemeChars
        THEN [scheme |-> [j \in 1..(i - 1) |-> Lower(url[j])],
              rest |-> SubSeq(url, i + 1, Len(url))]
        ELSE [scheme |-> <<>>, rest |-> url]

\* urlparse(url).netloc: after "//", up to the first of / ? #
urlparse_netloc(url) ==
    LET rest == urlparse_scheme(url).rest
        ends == { i \in 3..Len(rest) : rest[i] \in {"/", "?", "#"} }
        stop == IF ends = {} THEN Len(rest) + 1
                ELSE CHOOSE i \in ends : \A j \in ends : i <= j
    IN  IF Len(rest) >= 2 /\ rest[1] = "/" /\ rest[2] = "/"
        THEN SubSeq(rest, 3, stop - 1)
        ELSE <<>>

\* text.partition(c)[2]: what follows the first c, nothing when there is none
AfterFirst(text, c) ==
    IF Find(text, c) = 0 THEN <<>> ELSE SubSeq(text, Find(text, c) + 1, Len(text))

\* text.partition(c)[0]: what precedes the first c, all of it when there is none
BeforeFirst(text, c) ==
    IF Find(text, c) = 0 THEN text ELSE SubSeq(text, 1, Find(text, c) - 1)

Has(text, c) == Find(text, c) # 0

\* _check_bracketed_host: over the characters used here the one address
\* that ipaddress accepts between brackets is ::
BracketedHostValid(host) == host = <<":", ":">>

\* urlparse(url) raises ValueError: a bracket of the netloc has no partner,
\* or what stands between the brackets is no IPv6 address
urlparse_raises(url) ==
    LET netloc == urlparse_netloc(url)
    IN  \/ Has(netloc, "[") /\ ~Has(netloc, "]")
        \/ Has(netloc, "]") /\ ~Has(netloc, "[")
        \/ /\ Has(netloc, "[") /\ Has(netloc, "]")
           /\ ~BracketedHostValid(BeforeFirst(AfterFirst(netloc, "["), "]"))

NoHref == [ok |-> FALSE, href |-> <<>>]

\* the escaped url when its scheme is http or https and it names a host
_safe_href(url) ==
    IF urlparse_scheme(url).scheme \notin {<<"h", "t", "t", "p">>, <<"h", "t", "t", "p", "s">>}
    THEN NoHref
    ELSE IF urlparse_netloc(url) = <<>> THEN NoHref
    ELSE [ok |-> TRUE, href |-> _h_attr(url)]

\* the line of a task: an anchor when the row has a link that is safe and
\* whose escaped form is not empty, the escaped task otherwise
TaskLine(task, link) ==
    IF link # <<>> /\ _safe_href(link).ok /\ _safe_href(link).href # <<>>
    THEN <<"*", " ">> \o <<"<", "a", " ", "h", "r", "e", "f", "=", "\"">> \o _safe_href(link).href
         \o <<"\"", ">">> \o _h(task) \o <<"<", "/", "a", ">">>
    ELSE <<"*", " ">> \o _h(task)

\* ------------------------------------------- generate_report: the row loop
\* the two status literals
DONE_STATUS == <<"D", "o", "n", "e">>
IN_PROGRESS_STATUS == <<"I", "n", " ", "p", "r", "o", "g", "r", "e", "s", "s">>

\* the cells of a row, as the sheet gives them
Tasks == { <<>>, <<" ">>, <<" ", "t">> }
Links == { <<>>, <<"h", "t", "t", "p", ":", "/", "/", "x">> }
Statuses == { DONE_STATUS, IN_PROGRESS_STATUS \o <<" ">>, <<"d", "o", "n", "e">> }
DatesClosed ==
    { <<>>, <<" ">>,
      <<"2", "9", ".", "1", "2", ".", "2", "0", "2", "5">>,
      <<"4", ".", "1", ".", "2", "0", "2", "6">>,
      <<"0", "5", ".", "0", "1", ".", "2", "0", "2", "6">>,
      <<"2", "8", ".", "1", "2", ".", "2", "0", "2", "5">>,
      <<"3", "1", ".", "0", "2", ".", "2", "0", "2", "6">>,
      <<"2", "0", "2", "6", "-", "0", "1", "-", "0", "4">> }
Rows == [task : Tasks, link : Links, status : Statuses, date_closed : DatesClosed]

FirstToday == Date(2026, 1, 5)
Todays == { plus_days(FirstToday, k) : k \in 0..(MaxDays - 1) }

\* generate_report has read the rows and starts on them
InitRows ==
    /\ SplitIdle /\ SendIdle /\ GenIdle /\ HandlerIdle
    /\ today \in Todays
    /\ WindowsOf(today)
    /\ rows_done = 0 /\ row = NoRow
    /\ done_tasks = <<>> /\ in_progress_tasks = <<>> /\ warning_calls = 0
    /\ rpc = "loop" /\ report_out = <<>>

\* mutant: the date is parsed before the test for a blank task
WarnsFor_any_task(task, date_closed) == date_closed # <<>> /\ ~strptime(date_closed).ok

\* the pass logs a warning: the task is not blank and the date does not parse
WarnsFor(task, date_closed) ==
    task # <<>> /\ date_closed # <<>> /\ ~strptime(date_closed).ok

\* mutant: the done window leaves out its last day
InDoneWindow_open_end(closed, day) ==
    /\ NotAfter(last_week_dates(day)[1], closed)
    /\ toordinal(closed) < toordinal(last_week_dates(day)[2])

\* done_start <= date_closed_dt <= done_end
InDoneWindow(closed, day) ==
    /\ NotAfter(last_week_dates(day)[1], closed)
    /\ NotAfter(closed, last_week_dates(day)[2])

\* the pass of the loop over row r: the fields are trimmed, a blank task is
\* skipped, the date is parsed, and a Done row of the window or an In-Progress
\* row gets its line; the ValueError of urlparse is caught nowhere and leaves
\* generate_report
Pass(r) ==
    LET task == strip(r.task)
        link == strip(r.link)
        status == strip(r.status)
        date_closed == strip(r.date_closed)
        parsed == IF date_closed # <<>> THEN strptime(date_closed) ELSE NoDate
        is_done == status = DONE_STATUS /\ parsed.ok /\ InDoneWindow(parsed.date, today)
        is_in_progress == ~is_done /\ status = IN_PROGRESS_STATUS
        raises == /\ task # <<>>
                  /\ is_done \/ is_in_progress
                  /\ link # <<>>
                  /\ urlparse_raises(link)
    IN  /\ row' = r
        /\ warning_calls' =
               IF WarnsFor(task, date_closed) THEN warning_calls + 1
               ELSE warning_calls
        /\ IF raises
           THEN /\ rpc' = "raised"
                /\ UNCHANGED <<rows_done, done_tasks, in_progress_tasks>>
           ELSE /\ rpc' = rpc
                /\ rows_done' = rows_done + 1
                /\ IF task = <<>>
                   THEN UNCHANGED <<done_tasks, in_progress_tasks>>
                   ELSE IF is_done
                   THEN /\ done_tasks' = Append(done_tasks, TaskLine(task, link))
                        /\ in_progress_tasks' = in_progress_tasks
                   ELSE IF is_in_progress
                   THEN /\ in_progress_tasks' =
                              Append(in_progress_tasks, TaskLine(task, link))
                        /\ done_tasks' = done_tasks
                   ELSE UNCHANGED <<done_tasks, in_progress_tasks>>
        /\ UNCHANGED <<today, windowVars, report_out, notRowVars>>

\* one pass of `for row in records`
ProcessRow ==
    /\ rpc = "loop"
    /\ rows_done < MaxRows
    /\ \E r \in Rows : Pass(r)

\* a section of the report: its bold header, then its lines or the placeholder
SectionLines(title, window, tasks) ==
    <<<<"<", "b", ">">> \o _h(title \o <<" ", "(">> \o format_date_range(window[1], window[2])
                \o <<")">>) \o <<"<", "/", "b", ">">>>>
    \o (IF tasks # <<>> THEN tasks ELSE <<PLACEHOLDER>>)

DONE_TITLE == <<"D", "o", "n", "e">>
IN_PROGRESS_TITLE == <<"I", "n", " ", "p", "r", "o", "g", "r", "e", "s", "s">>

\* the rows are through: the text is assembled and returned
AssembleReport ==
    /\ rpc = "loop"
    /\ rpc' = "returned"
    /\ report_out' =
           Join(SectionLines(DONE_TITLE, last_week_dates(today), done_tasks)
                \o <<<<>>>>
                \o SectionLines(IN_PROGRESS_TITLE, current_week_dates(today),
                                in_progress_tasks))
    /\ UNCHANGED <<today, windowVars, rows_done, row, done_tasks, in_progress_tasks, warning_calls,
                   notRowVars>>

NextRows == ProcessRow \/ AssembleReport

SpecRows == InitRows /\ [][NextRows]_vars

\* ----------------------------------- generate_report: the two week windows
\* the days `today` is drawn from: every day of MaxWeekYears years from 2023
\* on (2024 is a leap year) and of the century years 1900 and 2000
WeekYears == (2023..(2022 + MaxWeekYears)) \cup {1900, 2000}
WeekTodays ==
    { Date(y, m, d) : y \in WeekYears, m \in 1..12, d \in 1..31 } \
        { dt \in { Date(y, m, d) : y \in WeekYears, m \in 1..12, d \in 29..31 } :
              dt.day > DaysInMonth(dt.year, dt.month) }

\* generate_report has taken today's date
InitWeeks ==
    /\ SplitIdle /\ SendIdle /\ GenIdle /\ HandlerIdle
    /\ today \in WeekTodays
    /\ NoWindows
    /\ rows_done = 0 /\ row = NoRow
    /\ done_tasks = <<>> /\ in_progress_tasks = <<>> /\ warning_calls = 0
    /\ rpc = "start" /\ report_out = <<>>

\* done_start, done_end = last_week_dates(today);
\* in_progress_start, in_progress_end = current_week_dates(today)
TakeWindows ==
    /\ rpc = "start"
    /\ done_start' = last_week_dates(today)[1]
    /\ done_end' = last_week_dates(today)[2]
    /\ in_progress_start' = current_week_dates(today)[1]
    /\ in_progress_end' = current_week_dates(today)[2]
    /\ rpc' = "loop"
    /\ UNCHANGED <<today, rows_done, row, done_tasks, in_progress_tasks, warning_calls,
                   report_out, notRowVars>>

NextWeeks == TakeWindows

SpecWeeks == InitWeeks /\ [][NextWeeks]_vars

\* ------------------------------------- generate_report: the link of a row
\* a link cell: a scheme or none, then up to MaxLinkLen more characters
LinkSchemes == { <<>>, <<"h", "t", "t", "p", ":">>, <<"h", "t", "t", "p", "s", ":">>, <<"H", "T", "T", "P", ":">>,
                 <<"j", "a", "v", "a", "s", "c", "r", "i", "p", "t", ":">> }
LinkChars == {"/", "x", "[", "]", ":", NL}
LinkTails == UNION { [1..k -> LinkChars] : k \in 0..MaxLinkLen }
LinkTexts == { scheme \o tail : scheme \in LinkSchemes, tail \in LinkTails }

\* the one row of the sheet: a named task with a link, of any status, closed
\* on the first day of the done window
LinkRows ==
    [task : { <<"<", "t">> }, link : LinkTexts, status : Statuses,
     date_closed : { <<"2", "9", ".", "1", "2", ".", "2", "0", "2", "5">> }]

\* generate_report has read a sheet of one row
InitLinks ==
    /\ SplitIdle /\ SendIdle /\ GenIdle /\ HandlerIdle
    /\ today = FirstToday
    /\ WindowsOf(today)
    /\ rows_done = 0 /\ row \in LinkRows
    /\ done_tasks = <<>> /\ in_progress_tasks = <<>> /\ warning_calls = 0
    /\ rpc = "loop" /\ report_out = <<>>

\* the pass of the loop over that row
ProcessLinkRow ==
    /\ rpc = "loop"
    /\ rows_done = 0
    /\ Pass(row)

\* the loop is over
AssembleLinkReport ==
    /\ rows_done # 0
    /\ AssembleReport

NextLinks == ProcessLinkRow \/ AssembleLinkReport

SpecLinks == InitLinks /\ [][NextLinks]_vars

\* ------------------------------------------------ reading a chunk list back
\* str.split("\n"): the lines of a chunk, empty ones kept
RECURSIVE split_nl(_, _, _)
split_nl(text, i, cur) ==
    IF i > Len(text) THEN <<cur>>
    ELSE IF text[i] = NL THEN <<cur>> \o split_nl(text, i + 1, <<>>)
    ELSE split_nl(text, i + 1, Append(cur, text[i]))

ChunkLines(chunk) == split_nl(chunk, 1, <<>>)

RECURSIVE Concat(_)
Concat(seqs) == IF seqs = <<>> THEN <<>> ELSE seqs[1] \o Concat(Tail(seqs))

\* the item lines of a section paired with its header line
ItemsOf(title, entries) ==
    [k \in 1..Len(entries) |-> [title |-> title, text |-> entries[k]]]

\* the item lines of the report as written: a header-only section has none
OriginalItems(text) ==
    LET sections == Sections(text)
    IN  Concat([s \in 1..Len(sections) |->
                   ItemsOf(sections[s][1], Tail(sections[s]))])

\* the item lines with the placeholder standing in for a header-only section
ExpectedItems(text) ==
    LET sections == Sections(text)
    IN  Concat([s \in 1..Len(sections) |->
                   ItemsOf(sections[s][1], Entries(sections[s]))])

\* what the chunks carry: each body line with the header line of its chunk
DeliveredItems(cs) ==
    Concat([k \in 1..Len(cs) |->
               LET ls == ChunkLines(cs[k])
               IN  ItemsOf(ls[1], Tail(ls))])

\* the delivered lines, in order, are the items: each item whole, or cut into
\* consecutive slices that carry the item's header
RECURSIVE Reassembles(_, _)
Reassembles(items, got) ==
    IF items = <<>> THEN got = <<>>
    ELSE \E k \in 1..Len(got) :
            /\ \A j \in 1..k : got[j].title = items[1].title
            /\ Concat([j \in 1..k |-> got[j].text]) = items[1].text
            /\ Reassembles(Tail(items), SubSeq(got, k + 1, Len(got)))

Covers(items) ==
    IF Len(report_text) <= limit THEN split_chunks = <<report_text>>
    ELSE IF Sections(report_text) = <<>>
    THEN \A k \in 1..Len(split_chunks) : IsBlank(split_chunks[k])
    ELSE Reassembles(items, DeliveredItems(split_chunks))

HeaderOnly(section) == Len(section) = 1

\* the chunk is the header line of the section, a newline, and body lines that
\* are each an entry or a slice of an entry
IsSliceOf(part, entry) ==
    /\ part # <<>>
    /\ \E a \in 1..Len(entry) : \E b \in a..Len(entry) : part = SubSeq(entry, a, b)

ChunkOfSection(chunk, title, entries) ==
    /\ Len(chunk) > Len(title) + 1
    /\ SubSeq(chunk, 1, Len(title) + 1) = title \o <<NL>>
    /\ LET body == ChunkLines(SubSeq(chunk, Len(title) + 2, Len(chunk)))
       IN  \A j \in 1..Len(body) :
               \E e \in 1..Len(entries) : IsSliceOf(body[j], entries[e])

\* ------------------------------------------------------------------ claims

\* C1: every chunk returned by _split_report_for_delivery(text, limit) has at
\* most limit characters, for every text and every limit >= 1.
C1_EveryChunkWithinLimit ==
    phase = "split" =>
        \A k \in 1..Len(split_chunks) : Len(split_chunks[k]) <= limit

\* C2 (as stated): with each chunk's header removed, the chunks' item text in
\* output order is the item lines of the report in their order, a hard-split
\* item reassembled from its slices; nothing lost, added or reordered.
C2_ChunksAreTheOriginalItems ==
    phase = "split" => Covers(OriginalItems(report_text))

\* C2 (amended): the same, where a section that is a header line only
\* contributes the placeholder item.
C2_ChunksCoverItemsWithPlaceholder ==
    phase = "split" => Covers(ExpectedItems(report_text))

C2_Witness ==
    /\ phase = "split"
    /\ Len(report_text) > limit
    /\ Len(Sections(report_text)) >= 2
    /\ \E s \in 1..Len(Sections(report_text)) : HeaderOnly(Sections(report_text)[s])
    /\ \E s \in 1..Len(Sections(report_text)) : Len(Sections(report_text)[s]) >= 3
    /\ Len(DeliveredItems(split_chunks)) > Len(ExpectedItems(report_text))

\* C3 (as stated): when the report is longer than the limit, every chunk is the
\* header line of a section of the report, a newline, and at least one item or
\* item slice of that section.
C3_EveryChunkHasHeaderAndItem ==
    (phase = "split" /\ Len(report_text) > limit) =>
        \A k \in 1..Len(split_chunks) :
            \E s \in 1..Len(Sections(report_text)) :
                ChunkOfSection(split_chunks[k], Sections(report_text)[s][1],
                               Tail(Sections(report_text)[s]))

\* C3 (amended): when the report is longer than the limit and has a non-blank
\* line, every chunk is the header line of a section, a newline, and at least
\* one item or item slice of that section, the placeholder item standing in
\* for the items of a header-only section.
C3_EveryChunkHasHeaderAndEntry ==
    (phase = "split" /\ Len(report_text) > limit /\ Sections(report_text) # <<>>) =>
        \A k \in 1..Len(split_chunks) :
            \E s \in 1..Len(Sections(report_text)) :
                ChunkOfSection(split_chunks[k], Sections(report_text)[s][1],
                               Entries(Sections(report_text)[s]))

C3_Witness ==
    /\ phase = "split"
    /\ Len(report_text) > limit
    /\ Len(Sections(report_text)) >= 2
    /\ \E k \in 1..Len(split_chunks) : Len(ChunkLines(split_chunks[k])) >= 3
    /\ Len(DeliveredItems(split_chunks)) > Len(ExpectedItems(report_text))

\* ------------------------------------------------ reading the transport log
StartsOf(m) == { j \in 1..Len(events) : events[j].type = "start" /\ events[j].msg = m }
EndsOf(m) == { j \in 1..Len(events) : events[j].type = "end" /\ events[j].msg = m }
EndsWith(m, outcome) == { j \in EndsOf(m) : events[j].outcome = outcome }
Msgs == { events[j].msg : j \in 1..Len(events) }
SendsOf(m) == { r \in 1..Len(sends) : sends[r].msg = m }
SendsEnded(kind, how) ==
    { r \in 1..Len(sends) : sends[r].msg.kind = kind /\ sends[r].ended = how }
KindEvents(kind) == { j \in 1..Len(events) : events[j].msg.kind = kind }

\* the position of a message in the order intro, chunk 1 .. chunk M, warning
Rank(m) ==
    IF m.kind = "intro" THEN 0
    ELSE IF m.kind = "chunk" THEN m.text[2]
    ELSE Len(chunks) + 1

\* the chunk loop ran to its end: the send of the last chunk returned or timed out
LoopEnded ==
    \E r \in 1..Len(sends) :
        /\ sends[r].msg.kind = "chunk"
        /\ Rank(sends[r].msg) = Len(chunks)
        /\ sends[r].ended \in {"return", "raise_TimedOut"}

\* C4: the calls for one message go out one after another; call k+1 is made
\* only if calls 1..k all timed out; at most 3 calls are made; the send returns
\* exactly when a call succeeded, and raises TimedOut after 3 timeouts.
C4_RetryOnlyAfterTimeoutAtMostThrice ==
    /\ Cardinality(inflight) <= 1
    /\ \A j \in 2..Len(events) :
           events[j].type = "start" => events[j - 1].type = "end"
    /\ \A m \in Msgs :
           /\ Cardinality(StartsOf(m)) <= 3
           /\ \A j \in StartsOf(m) :
                  /\ events[j].attempt = Cardinality({ k \in StartsOf(m) : k <= j })
                  /\ \A k \in EndsOf(m) : k < j => events[k].outcome = "TimedOut"
                  /\ Cardinality({ k \in EndsOf(m) : k < j }) = events[j].attempt - 1
           /\ (EndsWith(m, "ok") # {}) <=>
                  (\E r \in SendsOf(m) : sends[r].ended = "return")
           /\ (Cardinality(EndsWith(m, "TimedOut")) = 3) <=>
                  (\E r \in SendsOf(m) : sends[r].ended = "raise_TimedOut")
           /\ \A r \in SendsOf(m) : sends[r].attempts = Cardinality(EndsOf(m))

C4_Witness ==
    /\ \E r \in 1..Len(sends) : sends[r].ended = "return" /\ sends[r].attempts = 2
    /\ \E r \in 1..Len(sends) : sends[r].ended = "raise_TimedOut" /\ sends[r].attempts = 3

\* C5: a failure that is not a timeout is never retried: the call that ended
\* with it is the last transport call of the invocation, and the failure leaves
\* send_report.
C5_OtherFailureEndsTheInvocation ==
    \A j \in 1..Len(events) :
        (events[j].type = "end" /\ events[j].outcome = "Error") =>
            /\ j = Len(events)
            /\ inflight = {}
            /\ pc = "done"
            /\ result = "raised_Error"

C5_Witness ==
    /\ result = "raised_Error"
    /\ Len(chunks) >= 2
    /\ events # <<>>
    /\ events[Len(events)].msg.kind = "chunk"
    /\ Rank(events[Len(events)].msg) = 1
    /\ events[Len(events)].attempt = 2
    /\ events[Len(events)].outcome = "Error"

\* C6: a chunk that timed out on all 3 attempts is counted as failed and the
\* loop goes on to the next chunk; a chunk loop in which calls fail by timeout
\* only runs to its end, and when it has ended every chunk was attempted and
\* sent_chunks + failed_chunks = M.
C6_FailedChunkIsCountedAndLoopGoesOn ==
    /\ sent_chunks = Cardinality(SendsEnded("chunk", "return"))
    /\ failed_chunks = Cardinality(SendsEnded("chunk", "raise_TimedOut"))
    /\ \A r \in SendsEnded("chunk", "raise_TimedOut") :
           Rank(sends[r].msg) < Len(chunks) =>
               /\ idx > Rank(sends[r].msg)
               /\ \/ \E j \in KindEvents("chunk") :
                         Rank(events[j].msg) = Rank(sends[r].msg) + 1
                  \/ /\ pc = "send"
                     /\ msg.kind = "chunk"
                     /\ Rank(msg) = Rank(sends[r].msg) + 1
    /\ (pc = "done" /\ KindEvents("chunk") # {}
            /\ \A j \in 1..Len(events) : events[j].outcome # "Error") => LoopEnded
    /\ LoopEnded =>
           /\ sent_chunks + failed_chunks = Len(chunks)
           /\ \A i \in 1..Len(chunks) :
                  \E j \in KindEvents("chunk") :
                      events[j].type = "start" /\ Rank(events[j].msg) = i

C6_Witness ==
    /\ LoopEnded
    /\ Len(chunks) = 3
    /\ failed_chunks = 2
    /\ sent_chunks = 1

\* C7: if every chunk failed, send_report raises TimedOut and no warning is
\* sent; if send_report returns, at least one chunk was delivered.
C7_AllFailedRaisesAndReturnMeansDelivered ==
    /\ (LoopEnded /\ failed_chunks = Len(chunks)) =>
           /\ pc = "done"
           /\ result = "raised_TimedOut"
           /\ msg.kind # "warning"
           /\ KindEvents("warning") = {}
    /\ result = "returned" =>
           /\ sent_chunks >= 1
           /\ \E j \in KindEvents("chunk") :
                  events[j].type = "end" /\ events[j].outcome = "ok"

C7_Witness ==
    /\ LoopEnded
    /\ Len(chunks) >= 2
    /\ failed_chunks = Len(chunks)
    /\ result = "raised_TimedOut"

\* C8: if N of M chunks failed with 0 < N < M, then after the loop exactly one
\* warning message is sent and its text states N and M; if no chunk failed, no
\* warning is sent.
C8_OneWarningStatingTheCounts ==
    /\ (LoopEnded /\ 0 < failed_chunks /\ failed_chunks < Len(chunks)) =>
           /\ msg = WarningMsg(failed_chunks, Len(chunks))
           /\ pc = "done" =>
                  /\ Cardinality(SendsOf(msg)) = 1
                  /\ StartsOf(msg) # {}
    /\ \A j \in KindEvents("warning") :
           /\ LoopEnded
           /\ 0 < failed_chunks /\ failed_chunks < Len(chunks)
           /\ events[j].msg.text = <<"warning", failed_chunks, Len(chunks)>>
           /\ \A k \in 1..Len(events) : k > j => events[k].msg = events[j].msg
    /\ Cardinality({ r \in 1..Len(sends) : sends[r].msg.kind = "warning" }) <= 1
    /\ failed_chunks = 0 =>
           /\ msg.kind # "warning"
           /\ KindEvents("warning") = {}

C8_Witness ==
    /\ pc = "done"
    /\ Len(chunks) = 3
    /\ failed_chunks = 2
    /\ \E r \in 1..Len(sends) :
           sends[r].msg = WarningMsg(2, 3) /\ sends[r].ended = "return"

\* C9: whatever failure the transport reports for the warning, send_report
\* returns normally.
C9_WarningFailureNeverEscalates ==
    (pc = "done" /\ \E r \in 1..Len(sends) : sends[r].msg.kind = "warning") =>
        result = "returned"

C12_IntroInsideTheFirstReportMessage ==
    /\ KindEvents("intro") = {}
    /\ (pc = "done" /\ intro /\ Len(chunks) = 1
            /\ \A j \in 1..Len(events) : events[j].outcome \in {"none", "ok"}) =>
           /\ Cardinality({ j \in 1..Len(events) : events[j].type = "start" }) = 1
           /\ events[1].msg.parse_mode = "HTML"
           /\ events[1].msg.disable_web_page_preview
    /\ Cardinality({ j \in 1..Len(events) : events[j].type = "start" }) =
           Cardinality({ j \in KindEvents("chunk") : events[j].type = "start" })
           + Cardinality({ j \in KindEvents("warning") : events[j].type = "start" })

\* C13: when the generation of the report fails, the failure leaves
\* send_report and no transport call is made: no intro, no chunk, no warning.
C13_GenerationFailureSendsNothing ==
    generated = "raised" =>
        /\ pc = "done"
        /\ result = "raised_Error"
        /\ events = <<>>
        /\ inflight = {}
        /\ sends = <<>>
        /\ msg = NoMsg
        /\ chunks = <<>>

C13_Witness ==
    /\ generated = "raised"
    /\ intro
    /\ pc = "done"

\* ------------------------------------------ reading the generation log
\* at most one thread is inside generate_report, and it holds _REPORT_LOCK
OneInRegion ==
    /\ Cardinality({ t \in Threads : InRegion(t) }) <= 1
    /\ \A t \in Threads : InRegion(t) <=> _REPORT_LOCK = t
    /\ \A t \in Threads : _SHEET_LOCK = t => InRegion(t)

\* C14: at most one thread is inside generate_report at any time, a thread is
\* inside it only while it holds _REPORT_LOCK, the lock is held by nobody else,
\* and the lock is released on return and on failure: every holder gives it
\* up and every waiting caller gets it.
C14_OneGenerationAtATimeAndLockReleased ==
    /\ []OneInRegion
    /\ \A t \in Threads : (_REPORT_LOCK = t) ~> (_REPORT_LOCK # t)
    /\ \A t \in Threads : (tpc[t] = "with_report_lock") ~> (_REPORT_LOCK = t)

C14_Witness ==
    /\ \E t, u \in Threads :
           /\ tpc[t] = "build"
           /\ tpc[u] = "with_report_lock"
           /\ \E r \in 1..Len(gen_log) :
                  gen_log[r].ended = "raised" /\ gen_log[r].thread = u

\* C15: an execution of generate_report that failed to get the sheet or to
\* read it left with the cache empty and with the exception; the execution
\* after it found the cache empty and went on to open a connection, and a
\* handle it got is a new one; an execution that read the sheet returned, and
\* left the cache holding the handle it read from, the one it found if it
\* found one.
C15_FailedReadEmptiesCacheSuccessKeepsIt ==
    /\ \A t \in Threads : tpc[t] = "raise" => _SHEET = None
    /\ \A r \in 1..Len(gen_log) :
           /\ gen_log[r].ended = "raised" =>
                  /\ gen_log[r].exit = None
                  /\ r < Len(gen_log) =>
                         /\ gen_log[r + 1].entry = None
                         /\ gen_log[r + 1].tried_open
                         /\ gen_log[r + 1].used # None =>
                                \A k \in 1..r : gen_log[k].used # gen_log[r + 1].used
           /\ gen_log[r].ended = "returned" =>
                  /\ gen_log[r].used # None
                  /\ gen_log[r].exit = gen_log[r].used
                  /\ gen_log[r].entry # None => gen_log[r].exit = gen_log[r].entry
                  /\ r < Len(gen_log) => gen_log[r + 1].entry = gen_log[r].exit
    /\ \A t \in Threads :
           tpc[t] \in {"except", "reset", "raise"} =>
               \A u \in Threads : tpc[u] # "build"

C15_Witness ==
    /\ Len(gen_log) = 3
    /\ gen_log[1].ended = "returned"
    /\ gen_log[2].ended = "raised" /\ gen_log[2].entry = 1 /\ gen_log[2].used = 1
    /\ gen_log[3].ended = "returned" /\ gen_log[3].used = 2 /\ _SHEET = 2

\* C16: the command is allowed exactly when the chat list is empty or holds
\* the chat id, and the user list is empty or holds the user id; the two
\* checks do not depend on each other; empty lists allow everything, a
\* missing user id too; a user list that is not empty denies a missing user
\* id whatever the chat.
C16_AllowedIffChatAndUserPass ==
    /\ access = "allowed" <=>
           /\ update.message /\ hpc # "start"
           /\ ALLOWED_CHAT_IDS = {} \/ update.chat_id \in ALLOWED_CHAT_IDS
           /\ \/ ALLOWED_TG_USERS = {}
              \/ update.user_id # None /\ update.user_id \in ALLOWED_TG_USERS
    /\ access = "denied" <=>
           /\ update.message /\ hpc # "start"
           /\ \/ ALLOWED_CHAT_IDS # {} /\ update.chat_id \notin ALLOWED_CHAT_IDS
              \/ /\ ALLOWED_TG_USERS # {}
                 /\ update.user_id = None \/ update.user_id \notin ALLOWED_TG_USERS
    /\ \A c \in ChatIds, u \in UserIds \cup {None} :
           /\ _is_allowed_chat(c) <=>
                  (ALLOWED_CHAT_IDS = {} \/ c \in ALLOWED_CHAT_IDS)
           /\ _is_allowed_user(u) <=>
                  (ALLOWED_TG_USERS = {} \/ (u # None /\ u \in ALLOWED_TG_USERS))
    /\ (ALLOWED_CHAT_IDS = {} /\ ALLOWED_TG_USERS = {}) => access # "denied"
    /\ (ALLOWED_TG_USERS # {} /\ update.user_id = None) => access # "allowed"

C16_Witness ==
    /\ access = "allowed"
    /\ ALLOWED_CHAT_IDS = {} /\ ALLOWED_TG_USERS = {}
    /\ update.user_id = None

\* C17: the access check comes before any report work: a denied command
\* never invokes send_report, logs nothing, and is answered with exactly one
\* reply, the denial text.
C17_DeniedNeverSendsAndRepliesOnce ==
    access = "denied" =>
        /\ send_report_calls = <<>>
        /\ replies = <<DENIED_TEXT>>
        /\ log_calls = <<>>
        /\ hpc \in {"reply_denied", "done"}

C17_Witness ==
    /\ access = "denied"
    /\ hpc = "done"
    /\ hresult = "returned"
    /\ ALLOWED_CHAT_IDS # {} /\ update.chat_id \notin ALLOWED_CHAT_IDS
    /\ ALLOWED_TG_USERS # {} /\ update.user_id \in ALLOWED_TG_USERS

\* the value is an optional minus sign and then digits only
PlainDecimal(text) ==
    LET body == IF text # <<>> /\ text[1] = "-" THEN Tail(text) ELSE text
    IN  body # <<>> /\ \A i \in 1..Len(body) : IsDigit(body[i])

\* the value has a character no number has, or no digit at all
NotANumber(text) ==
    \/ \E i \in 1..Len(text) : text[i] \notin {"-", "+", "_", " "} /\ ~IsDigit(text[i])
    \/ \A i \in 1..Len(text) : ~IsDigit(text[i])

\* C18: the scheduled job with REPORT_CHAT_ID unset or empty logs a warning
\* and never invokes send_report; with a value that is not a number it logs
\* exactly one error and never invokes send_report; with a decimal number,
\* negative ones too, it invokes send_report exactly once, with that integer;
\* whatever happens, send_report raising too, the job returns normally.
C18_ScheduledReportGuardsItsChatId ==
    /\ hresult # "raised"
    /\ hpc = "done" => hresult = "returned"
    /\ replies = <<>>
    /\ Len(send_report_calls) <= 1
    /\ hpc # "start" =>
           /\ NotConfigured(REPORT_CHAT_ID) =>
                  send_report_calls = <<>> /\ log_calls = <<"warning">>
           /\ (~NotConfigured(REPORT_CHAT_ID) /\ NotANumber(REPORT_CHAT_ID.text)) =>
                  send_report_calls = <<>> /\ log_calls = <<"error">>
           /\ \A n \in -22..22 :
                  (~REPORT_CHAT_ID.is_none /\ REPORT_CHAT_ID.text = str_int(n)) =>
                      send_report_calls = <<n>>
           /\ (~REPORT_CHAT_ID.is_none /\ PlainDecimal(REPORT_CHAT_ID.text)) =>
                  /\ Len(send_report_calls) = 1
                  /\ \A j \in 1..Len(log_calls) : log_calls[j] = "exception"
           /\ send_report_calls = <<>> <=> Len(log_calls) = 1 /\ log_calls[1] # "exception"
           /\ send_report_calls # <<>> =>
                  /\ hpc = "send_report" => log_calls = <<>>
                  /\ hpc = "done" => log_calls \in {<<>>, <<"exception">>}

C18_Witness ==
    /\ REPORT_CHAT_ID = EnvStr(<<"-", "1", "2">>)
    /\ send_report_calls = <<-12>>
    /\ log_calls = <<"exception">>
    /\ hresult = "returned"

\* ---------------------------------------------- reading the row loop
\* what the claims say of a row: its closed date is there and is no date
MalformedDate(r) ==
    strip(r.date_closed) # <<>> /\ ~strptime(strip(r.date_closed)).ok

\* the row is a Done row: named, Done, closed within the done window
IsDoneRow(r, day) ==
    /\ strip(r.task) # <<>>
    /\ strip(r.status) = DONE_STATUS
    /\ strptime(strip(r.date_closed)).ok
    /\ toordinal(last_week_dates(day)[1]) <= toordinal(strptime(strip(r.date_closed)).date)
    /\ toordinal(strptime(strip(r.date_closed)).date) <= toordinal(last_week_dates(day)[2])

\* the row is an In-Progress row: named and In progress
IsInProgressRow(r) ==
    /\ strip(r.task) # <<>>
    /\ strip(r.status) = IN_PROGRESS_STATUS

\* `after` is `before` with one line more at its end (grew), or `before`
Grew(before, after, grew) ==
    IF grew
    THEN Len(after) = Len(before) + 1 /\ SubSeq(after, 1, Len(before)) = before
    ELSE after = before

\* C19: a pass of the loop puts one line at the end of the Done list iff the
\* row is named, its status is the Done literal and its closed date parses
\* and lies in the done window, ends included; it puts one line at the end of
\* the In-Progress list iff the row is named and its status is the In-Progress
\* literal, whatever its closed date; no row does both, every other row adds
\* nothing, and the lines before it stay as they are, in their order.
C19_RowsClassifiedInOrder ==
    /\ [](Len(done_tasks) + Len(in_progress_tasks) <= rows_done)
    /\ [][rows_done' = rows_done + 1 =>
             /\ Grew(done_tasks, done_tasks', IsDoneRow(row', today))
             /\ Grew(in_progress_tasks, in_progress_tasks', IsInProgressRow(row'))
             /\ ~(IsDoneRow(row', today) /\ IsInProgressRow(row'))
             /\ Len(done_tasks') + Len(in_progress_tasks')
                    <= Len(done_tasks) + Len(in_progress_tasks) + 1]_vars
    /\ [][rows_done' = rows_done =>
             done_tasks' = done_tasks /\ in_progress_tasks' = in_progress_tasks]_vars

C19_Witness ==
    /\ rows_done = 2
    /\ Len(done_tasks) = 2
    /\ done_tasks[1] # done_tasks[2]
    /\ row.date_closed = <<"4", ".", "1", ".", "2", "0", "2", "6">>
    /\ row.link # <<>>
    /\ today = Date(2026, 1, 11)

RECURSIVE AfterLast(_, _)
AfterLast(text, c) ==
    IF Has(text, c) THEN AfterLast(AfterFirst(text, c), c) ELSE text

\* the host of a link: of its netloc, what follows the user information, up
\* to the port; between the brackets when there are brackets
LinkHost(url) ==
    LET hostinfo == AfterLast(urlparse_netloc(url), "@")
    IN  IF Has(hostinfo, "[") THEN BeforeFirst(AfterFirst(hostinfo, "["), "]")
        ELSE BeforeFirst(hostinfo, ":")

\* the scheme of the link is http or https and its host is not empty
LinkIsSafe(url) ==
    /\ urlparse_scheme(url).scheme \in {<<"h", "t", "t", "p">>, <<"h", "t", "t", "p", "s">>}
    /\ LinkHost(url) # <<>>

AnchorLine(task, link) ==
    <<"*", " ", "<", "a", " ", "h", "r", "e", "f", "=", "\"">> \o _h_attr(link)
        \o <<"\"", ">">> \o _h(task) \o <<"<", "/", "a", ">">>

PlainLine(task) == <<"*", " ">> \o _h(task)

\* C21 as stated: once the loop has passed over a row that is a Done row or
\* an In-Progress row, generate_report has not raised and exactly one line
\* stands in the lists, whatever the link; the line is the anchor only if the
\* link's scheme is http or https and its host is not empty, and otherwise
\* it is the plain escaped task text.
C21_LinkNeverDropsRowNorEmitsUnsafe ==
    (/\ IsDoneRow(row, today) \/ IsInProgressRow(row)
     /\ ~(rpc = "loop" /\ rows_done = 0))
    => /\ rpc # "raised"
       /\ Len(done_tasks) + Len(in_progress_tasks) = 1
       /\ LET line == (done_tasks \o in_progress_tasks)[1]
          IN  IF LinkIsSafe(strip(row.link))
              THEN line \in {AnchorLine(strip(row.task), strip(row.link)),
                             PlainLine(strip(row.task))}
              ELSE line = PlainLine(strip(row.task))

\* C22: once the windows are taken, each starts on a Monday and ends six
\* days later, today lies in the in-progress window, and the done window
\* ends on the day before the in-progress window starts.
C22_WindowsAreConsecutiveWeeks ==
    rpc = "loop" =>
        /\ weekday(done_start) = 0
        /\ weekday(in_progress_start) = 0
        /\ toordinal(done_end) = toordinal(done_start) + 6
        /\ toordinal(in_progress_end) = toordinal(in_progress_start) + 6
        /\ toordinal(in_progress_start) <= toordinal(today)
        /\ toordinal(today) <= toordinal(in_progress_end)
        /\ toordinal(done_end) + 1 = toordinal(in_progress_start)

C22_Witness ==
    /\ rpc = "loop"
    /\ today = Date(2024, 3, 6)
    /\ done_start = Date(2024, 2, 26)
    /\ done_end = Date(2024, 3, 3)
    /\ in_progress_start = Date(2024, 3, 4)
    /\ in_progress_end = Date(2024, 3, 10)

\* ---------------------------------- reading the line-based splitter's chunks
NonEmpty(seqs) == SelectSeq(seqs, LAMBDA x : x # <<>>)

\* what the lines of the text should come out as: a line within the limit
\* whole, a longer one as its consecutive slices of `lim` characters, each
\* slice on its own
PiecesOfLine(line, lim) ==
    IF Len(line) <= lim THEN << [text |-> line, alone |-> FALSE] >>
    ELSE LET slices == HardSplit(line, 0, lim)
         IN  [k \in 1..Len(slices) |-> [text |-> slices[k], alone |-> TRUE]]

ExpectedPieces(text, lim) ==
    LET lines == NonEmpty(splitlines(text))
    IN  Concat([k \in 1..Len(lines) |-> PiecesOfLine(lines[k], lim)])

\* the lines the chunks carry, each with whether it is the whole of its chunk
DeliveredPieces(cs) ==
    Concat([k \in 1..Len(cs) |->
               LET ls == NonEmpty(ChunkLines(cs[k]))
               IN  [j \in 1..Len(ls) |-> [text |-> ls[j], alone |-> Len(ls) = 1]]])

\* C23 as stated: the chunks of _split_report_chunks carry the non-empty
\* lines of the text in order, a line within the limit whole in one chunk
\* and a longer line as its consecutive slices of `limit` characters, each
\* slice a chunk of its own; and every chunk has at most `limit` characters.
C23_LinesWholeAndChunksWithinLimit ==
    phase = "chunks" =>
        LET want == ExpectedPieces(report_text, limit)
            got == DeliveredPieces(split_chunks)
        IN  /\ Len(got) = Len(want)
            /\ \A k \in 1..Len(want) :
                  /\ got[k].text = want[k].text
                  /\ want[k].alone => got[k].alone
            /\ \A k \in 1..Len(split_chunks) : Len(split_chunks[k]) <= limit

\* ------------------------------------------ reading how a section was packed
\* what the entries of a section with this header come out as: an entry that
\* fits beside the header whole, a longer one as its slices
PackedPiecesOf(title, entry, lim) ==
    IF Len(titled(title, entry)) <= lim THEN << [text |-> entry, slice |-> FALSE] >>
    ELSE LET parts == HardSplit(entry, 0, entry_room(title, lim))
         IN  [k \in 1..Len(parts) |-> [text |-> parts[k], slice |-> TRUE]]

PackedPieces(text, lim) ==
    LET section == Sections(text)[1]
        entries == Entries(section)
    IN  Concat([k \in 1..Len(entries) |-> PackedPiecesOf(section[1], entries[k], lim)])

\* the body lines of the chunks, each with the number of its chunk
PackedLines(cs) ==
    Concat([k \in 1..Len(cs) |->
               LET ls == Tail(ChunkLines(cs[k]))
               IN  [j \in 1..Len(ls) |-> [text |-> ls[j], chunk |-> k]]])

\* the chunks carry the pieces in order
CarriesPieces(want, got) ==
    /\ Len(got) = Len(want)
    /\ \A p \in 1..Len(want) : got[p].text = want[p].text

\* the first line of the later chunk did not fit the chunk before it
ClosedOnOverflow(want, got, p) ==
    Len(split_chunks[got[p].chunk]) + 1 + Len(want[p + 1].text) > limit

\* C24 as stated: when a report of one section is packed, a chunk is closed
\* only on overflow: the first item of every later chunk would not have
\* fitted the chunk before it, also when that chunk is the last slice of a
\* hard-split item.
C24_ChunkClosedOnlyOnOverflow ==
    (phase = "split" /\ Len(report_text) > limit) =>
        LET want == PackedPieces(report_text, limit)
            got == PackedLines(split_chunks)
        IN  /\ CarriesPieces(want, got)
            /\ \A p \in 1..(Len(want) - 1) :
                  got[p].chunk # got[p + 1].chunk => ClosedOnOverflow(want, got, p)

\* C24 amended: a chunk of whole items is closed only on overflow; every
\* slice of a hard-split item is a chunk of its own, and the item after the
\* last slice starts a new chunk whether or not it would have fitted.
C24_PackedChunkClosedOnlyOnOverflow ==
    (phase = "split" /\ Len(report_text) > limit) =>
        LET want == PackedPieces(report_text, limit)
            got == PackedLines(split_chunks)
        IN  /\ CarriesPieces(want, got)
            /\ \A p \in 1..(Len(want) - 1) :
                  IF want[p].slice \/ want[p + 1].slice
                  THEN got[p].chunk # got[p + 1].chunk
                  ELSE got[p].chunk # got[p + 1].chunk => ClosedOnOverflow(want, got, p)

C24_Witness ==
    /\ phase = "split"
    /\ report_text = Join(<< <<"a">>, <<"c", "c", "c", "c">>, <<"a">> >>)
    /\ limit = 5
    /\ split_chunks = << <<"a", NL, "c", "c", "c">>, <<"a", NL, "c">>, <<"a", NL, "a">> >>

\* ------------------------------------------------------ reading the delays
\* the attempts that timed out and were not the last of their message
RetriedEnds ==
    SelectSeq(events, LAMBDA e : /\ e.type = "end"
                                 /\ e.outcome = "TimedOut"
                                 /\ e.attempt < SEND_RETRY_ATTEMPTS)

\* C25: the delays slept are, in order, base delay * k for every k-th attempt
\* that timed out with k below the number of attempts, and nothing else: none
\* after an attempt that succeeded, failed otherwise, or timed out as the last
\* one; the attempt after a delay is attempt k + 1 of the same message; and a
\* message that used up its attempts has slept base delay * 1 and then
\* base delay * 2 just before, base delay * (1 + 2) in all.
C25_DelayGrowsWithAttempt ==
    /\ [](/\ Len(slept) = Len(RetriedEnds)
          /\ \A k \in 1..Len(slept) :
                slept[k] = SEND_RETRY_BASE_DELAY_SEC * RetriedEnds[k].attempt)
    /\ [][Len(slept') = Len(slept) + 1 =>
             /\ attempt' = attempt + 1
             /\ attempt \in {1, 2}
             /\ msg' = msg
             /\ slept'[Len(slept')] = SEND_RETRY_BASE_DELAY_SEC * attempt]_vars
    /\ [][(/\ Len(sends') = Len(sends) + 1
            /\ sends'[Len(sends')].ended = "raise_TimedOut") =>
             /\ slept' = slept
             /\ Len(slept) >= 2
             /\ slept[Len(slept) - 1] + slept[Len(slept)]
                    = SEND_RETRY_BASE_DELAY_SEC * (1 + 2)
             /\ LET e == Len(events')
                IN  /\ events'[e - 4].type = "end" /\ events'[e - 4].attempt = 1
                    /\ events'[e - 4].msg = events'[e].msg
                    /\ events'[e - 2].type = "end" /\ events'[e - 2].attempt = 2
                    /\ events'[e - 2].msg = events'[e].msg]_vars

C25_Witness ==
    /\ Len(sends) = 2
    /\ sends[1].ended = "return"
    /\ sends[2].ended = "raise_TimedOut"
    /\ sends[2].msg.kind = "chunk"
    /\ slept = <<SEND_RETRY_BASE_DELAY_SEC * 1, SEND_RETRY_BASE_DELAY_SEC * 2>>

\* ------------------------------------------- reading an invocation's end
\* the intro timed out on every attempt
IntroFailed ==
    /\ sends # <<>>
    /\ sends[1].msg.kind = "intro"
    /\ sends[1].ended = "raise_TimedOut"

\* C26: once the intro has timed out on all its attempts, send_report has
\* raised TimedOut after the three intro calls and nothing else (no chunk,
\* no warning); from then on no call goes to the transport, send_report is
\* not called again by the /otchet handler nor by scheduled_report, and the
\* only reply is the handler's failure text (scheduled_report replies nothing).
C26_IntroFailureEndsTheInvocation ==
    /\ [](IntroFailed =>
             /\ result = "raised_TimedOut" /\ pc = "done"
             /\ Len(sends) = 1 /\ sends[1].attempts = SEND_RETRY_ATTEMPTS
             /\ Len(events) = 2 * SEND_RETRY_ATTEMPTS
             /\ \A k \in 1..Len(events) : events[k].msg.kind = "intro"
             /\ inflight = {}
             /\ Len(send_report_calls) = 1
             /\ replies \in {<<>>, <<FAILED_TEXT>>}
             /\ ~update.message => replies = <<>>
             /\ (update.message /\ hpc \in {"reply_failed", "done"})
                    => replies = <<FAILED_TEXT>>)
    /\ [][IntroFailed =>
             /\ events' = events /\ sends' = sends /\ inflight' = inflight
             /\ pc' = pc /\ result' = result
             /\ send_report_calls' = send_report_calls
             /\ hpc' # "send_report" \/ hpc = "send_report"]_vars

C26_Witness ==
    /\ IntroFailed
    /\ update.message
    /\ hpc = "done"
    /\ hresult = "returned"
    /\ replies = <<FAILED_TEXT>>
    /\ log_calls = <<"exception">>

\* C27: either splitter has returned, and returned at least one chunk, at
\* most three per character of the text; when the text is longer than the
\* limit no chunk is empty, the room for a slice beside each section header
\* is at least one character, and every chunk of the section-aware splitter
\* carries at least one character after its header, also when the header is
\* as long as the limit or longer.
C27_SplittersReturnChunks ==
    phase \in {"split", "chunks"} =>
        /\ split_chunks # <<>>
        /\ Len(split_chunks) <= Max(1, 3 * Len(report_text))
        /\ Len(report_text) > limit =>
              /\ \A k \in 1..Len(split_chunks) : split_chunks[k] # <<>>
              /\ \A j \in 1..Len(Sections(report_text)) :
                    entry_room(Sections(report_text)[j][1], limit) >= 1
              /\ (phase = "split" /\ Sections(report_text) # <<>>) =>
                    \A k \in 1..Len(split_chunks) :
                        /\ Len(ChunkLines(split_chunks[k])) >= 2
                        /\ ChunkLines(split_chunks[k])[2] # <<>>

C27_Witness ==
    /\ phase = "split"
    /\ limit = 1
    /\ report_text = <<"b", "b", NL, "c", " ", "c">>
    /\ split_chunks = << <<"b", "b", NL, "c">>, <<"b", "b", NL, " ">>,
                         <<"b", "b", NL, "c">> >>

\* ------------------------------------------------ reading the cache's writes
\* no handler has emptied the cache yet
NoInvalidationYet ==
    /\ \A t \in Threads : tpc[t] # "raise"
    /\ \A k \in 1..Len(gen_log) : gen_log[k].ended # "raised"

\* the thread that takes the step
Steps(t) == tpc'[t] # tpc[t]

\* C28: the cached handle changes only in a step of the thread that holds
\* _SHEET_LOCK, at the open of get_sheet or at the handler's invalidation;
\* as long as no handler has emptied the cache, threads that call get_sheet
\* at the same time on an empty cache open at most one connection and all
\* get that one handle; a failed open leaves the cache empty and the lock
\* free; the lock is held by at most the one thread inside a with block.
C28_CacheWrittenUnderItsLock ==
    /\ [][_SHEET' # _SHEET =>
             /\ _SHEET_LOCK \in Threads
             /\ tpc[_SHEET_LOCK] \in {"open", "reset"}
             /\ Steps(_SHEET_LOCK)
             /\ _SHEET_LOCK' = Free]_vars
    /\ [](NoInvalidationYet =>
             /\ opened <= 1
             /\ _SHEET = (IF opened = 1 THEN 1 ELSE None)
             /\ \A t \in Threads : tpc[t] = "read" => sheet[t] = 1
             /\ \A k \in 1..Len(gen_log) : gen_log[k].used = 1)
    /\ [][\A t \in Threads :
             (tpc[t] = "open" /\ tpc'[t] = "except") =>
                 /\ _SHEET = None /\ _SHEET' = None
                 /\ _SHEET_LOCK = t /\ _SHEET_LOCK' = Free]_vars
    /\ [](\A t \in Threads :
             (_SHEET_LOCK = t) <=> (tpc[t] \in {"recheck", "open", "reset"}))

C28_Witness ==
    /\ NoInvalidationYet
    /\ \E t, u \in Threads :
          /\ t # u
          /\ tpc[t] = "recheck" /\ at_entry[t] = None
          /\ _SHEET = 1
          /\ \E k \in 1..Len(gen_log) :
                /\ gen_log[k].thread = u /\ gen_log[k].ended = "returned"
                /\ gen_log[k].entry = None /\ gen_log[k].tried_open
                /\ gen_log[k].used = 1

====
